---- MODULE Spec2Model ----
(***************************************************************************)
(* Model of the novel_parser crawl engine: the page pool of                *)
(* browser_init.js, the fetch protocol of fetch_page.js, the batch         *)
(* orchestrator of parser_init.js and the glyph decoder of                 *)
(* scripts/cleaners.                                                       *)
(*                                                                         *)
(* The program is single-threaded JavaScript.  One caller runs at a time;  *)
(* pc is its position, stack the return labels of the calls in progress.   *)
(* A step runs from one real I/O suspension point (an await on the         *)
(* browser, a timer) to the next; the only event that can interleave is    *)
(* the browser's 'disconnected' event.                                     *)
(*                                                                         *)
(* The two schedulers (the unified server and the cron script) can have    *)
(* several invocations of ParserWrapper in progress in one process; they   *)
(* are modelled at the grain of the awaits of the orchestrator, each       *)
(* invocation with its locals in `runs`.  The waits fetchPage computes     *)
(* between attempts are pure arithmetic and have their own small model.    *)
(***************************************************************************)
EXTENDS Integers, Sequences, FiniteSets, TLC

\* ---------------------------------------------------------------- bounds
MaxPageIds == 5
MaxUsesDraw == 1
MaxRetries == 3
MaxNovels == 2
MaxUrls == 2
MaxLen == 3
MaxShift == 1
MaxRuns == 2
MaxTicks == 3
MaxAttempt == 8

\* ------------------------------------------------------ program constants
MAX_PAGES == 3
MAX_PAGE_USES_MIN == 10
MAX_PAGE_USES_SPAN == 6
DEFAULT_RETRIES == 3
TOTAL_LETTERS == 52
STATUS_PENDING == 0
STATUS_SUCCESS == 1
STATUS_ERROR == -1
STATUS_PROCESSING == 2

VARIABLES
    browserInstance,  \* 0 = null, otherwise the id of the launched browser
    pagePool,         \* the Map in insertion order: Seq of [page, uses]
    maxPageUses,      \* MAX_PAGE_USES, drawn once when the module loads
    open,             \* pages that exist in the browser (created, not closed)
    pc,               \* position of the running caller
    stack,            \* return labels of the calls in progress
    rv,               \* value returned by the call that just finished
    exc,              \* message of the error thrown by that call, <<>> = none
    gpForceNew,       \* getPage: parameter forceNew
    gpBrowser,        \* getPage: local browser
    gpPage,           \* getPage: local page (the page being created)
    victim,           \* the page whose close() is in flight
    rpPage,           \* recyclePage: parameter page
    cbIdx,            \* closeBrowser: position of the pool iterator
    callerPage,       \* the page the driver got from its last call
    drvOp,            \* the operation the driver issued last
    drvPool,          \* pagePool as it was when that operation was issued
    fpUrl,            \* fetchPage: parameter url ("" = missing)
    fpPage,           \* fetchPage: parameter page (0 = missing)
    fpRetries,        \* fetchPage: parameter retries
    fpCurrent,        \* fetchPage: local currentPage
    fpRecycled,       \* fetchPage: local wasRecycled
    fpAttempt,        \* fetchPage: loop variable attempt
    fpLastError,      \* fetchPage: local lastError (its message)
    fpResp,           \* fetchPage: local response (-1 = none yet, 0 = null)
    fpErr,            \* fetchPage: the error thrown inside the try block
    fpTrace,          \* what this call did so far: navigations, CAPTCHAs, waits, recycles
    fpFailures,       \* messages of the failed attempts, in order
    novels,           \* table novels: id -> [status, total_chapters]
    chapters,         \* table chapters, by id: Seq of [novel_id, url, status, content]
    pendingNovels,    \* ParserWrapper: the rows its novel query returned (ids)
    pendingChapters,  \* ParserWrapper: the rows its chapter query returned (ids)
    qNovels,          \* status of every novel when the novel query ran
    qChapters,        \* status of every chapter when the chapter query ran
    rowsBefore,       \* number of chapter rows when the run started
    pwInit,           \* ParserWrapper: local browserInitialized
    pwPage,           \* ParserWrapper: local page
    pwErr,            \* ParserWrapper: the error it rethrows, <<>> = none
    bIdx,             \* ParseNovels / ParseChapters: loop variable i (from 1)
    bPage,            \* ParseNovels / ParseChapters: local currentPage
    dResult,          \* the result object of discoverNovel / discoverChapter
    site,             \* the remote site: the answers it can give to a request
    dFont,            \* decodeObfuscatedText: the font file behind fontName
    dText,            \* decodeObfuscatedText: encodedText
    dMap,             \* decodeObfuscatedText: glyphToCharMap
    parserRunning,    \* unified server: module variable parserRunning
    runs,             \* the invocations of ParserWrapper, each with its locals
    ticks,            \* cron ticks fired so far
    startup,          \* RUN_ON_START: the start-up run has not fired yet
    wAttempt,         \* fetchPage: the attempt a wait is computed for
    wDelay            \* fetchPage: the wait computed last: [kind, ms]

poolVars == <<browserInstance, pagePool, maxPageUses, open>>
callVars == <<pc, stack, rv, exc>>
gpVars == <<gpForceNew, gpBrowser, gpPage>>
localVars == <<gpForceNew, gpBrowser, gpPage, victim, rpPage, cbIdx>>
driverVars == <<callerPage, drvOp, drvPool>>
fpVars == <<fpUrl, fpPage, fpRetries, fpCurrent, fpRecycled, fpAttempt,
            fpLastError, fpResp, fpErr, fpTrace, fpFailures>>
storeVars == <<novels, chapters>>
runVars == <<pendingNovels, pendingChapters, qNovels, qChapters, rowsBefore,
             pwInit, pwPage, pwErr, bIdx, bPage, dResult>>
decVars == <<dFont, dText, dMap>>
schedVars == <<parserRunning, runs, ticks, startup>>
waitVars == <<wAttempt, wDelay>>
vars == <<poolVars, callVars, localVars, driverVars, fpVars, storeVars,
          runVars, site, decVars, schedVars, waitVars>>

\* what the steps of the pool, of fetchPage and of a driver leave alone
nonPoolVars ==
    <<driverVars, fpVars, storeVars, runVars, site, decVars, schedVars,
      waitVars>>
nonFetchVars ==
    <<driverVars, storeVars, runVars, site, decVars, schedVars, waitVars>>
nonDriverVars ==
    <<fpVars, storeVars, runVars, site, decVars, schedVars, waitVars>>
nonRunVars == <<driverVars, site, decVars, schedVars, waitVars>>
nonDecodeVars ==
    <<driverVars, fpVars, storeVars, runVars, site, schedVars, waitVars>>

PageIds == 1..MaxPageIds
NoError == <<>>

\* ------------------------------------------------------------- Map helpers
PoolPages == {pagePool[i].page : i \in 1..Len(pagePool)}

PoolHas(pool, p) == \E i \in 1..Len(pool) : pool[i].page = p

PoolIndex(pool, p) == CHOOSE i \in 1..Len(pool) : pool[i].page = p

\* a delete that removes nothing
PoolDelete_none(pool, p) == pool

\* a delete that counts a use on every Session it leaves registered
PoolDelete_counting(pool, p) ==
    LET keep == {i \in 1..Len(pool) : pool[i].page # p}
        rank(i) == Cardinality({j \in keep : j <= i})
    IN [k \in 1..Cardinality(keep) |->
           LET e == pool[CHOOSE i \in keep : rank(i) = k]
           IN [e EXCEPT !.uses = @ + 1]]

\* Map.delete: removes the entry, keeps the order of the others
PoolDelete(pool, p) == SelectSeq(pool, LAMBDA e : e.page # p)

\* the last of the entries `hits`
FirstIndex_last(hits) ==
    IF hits = {} THEN 0 ELSE CHOOSE i \in hits : \A j \in hits : j <= i

\* first of the entries `hits`, in insertion order (0 when there is none)
FirstIndex(hits) ==
    IF hits = {} THEN 0 ELSE CHOOSE i \in hits : \A j \in hits : i <= j

\* ------------------------------------------------------------ getPageStats
\* statistics that never ask to recycle a page the pool does not know
getPageStats_knownOnly(pool, p) ==
    IF ~PoolHas(pool, p)
    THEN [uses |-> 0, maxUses |-> maxPageUses, shouldRecycle |-> FALSE]
    ELSE [uses |-> pool[PoolIndex(pool, p)].uses,
          maxUses |-> maxPageUses,
          shouldRecycle |-> pool[PoolIndex(pool, p)].uses >= maxPageUses]

getPageStats(pool, p) ==
    IF ~PoolHas(pool, p)
    THEN [uses |-> 0, maxUses |-> maxPageUses, shouldRecycle |-> TRUE]
    ELSE [uses |-> pool[PoolIndex(pool, p)].uses,
          maxUses |-> maxPageUses,
          shouldRecycle |-> pool[PoolIndex(pool, p)].uses >= maxPageUses]

\* --------------------------------------------------------- call mechanism
Call(label, ret) == pc' = label /\ stack' = <<ret>> \o stack

Return(value) ==
    /\ pc' = Head(stack)
    /\ stack' = Tail(stack)
    /\ rv' = value
    /\ exc' = NoError

Throw(msg) ==
    /\ pc' = Head(stack)
    /\ stack' = Tail(stack)
    /\ rv' = 0
    /\ exc' = msg

\* a page object no variable refers to any more can stand for a new one
Referenced ==
    PoolPages \cup open
        \cup {callerPage, gpPage, victim, rpPage, fpPage, fpCurrent,
              pwPage, bPage}
        \cup {drvPool[i].page : i \in 1..Len(drvPool)}

FreshPages == PageIds \ Referenced

NewPageId == CHOOSE p \in FreshPages : \A q \in FreshPages : p <= q

\* =================================================== browser_init.js: pool
\* positions at which the caller is suspended on browser I/O or a timer
PoolSuspended ==
    {"ib_launching", "gp_evict_closing", "gp_limit_closing", "gp_creating",
     "gp_configuring", "rp_closing", "cb_closing", "cb_browser_closing"}

\* await page.close(): resolves when the page is open and closes it; rejects
\* when the page is already gone (every caller swallows the rejection)
CloseRejects(p) == p \notin open

ClosePage(p) == open' = open \ {p}

\* ---- initBrowser
\* a browser object no variable refers to any more can stand for a new one
NewBrowserId == IF gpBrowser = 1 THEN 2 ELSE 1

ib_start ==
    /\ pc = "ib_start"
    /\ IF browserInstance # 0
       THEN Return(browserInstance)
       ELSE pc' = "ib_launching" /\ UNCHANGED <<stack, rv, exc>>
    /\ UNCHANGED <<poolVars, localVars>>

ib_launching ==
    /\ pc = "ib_launching"
    /\ \E ok \in BOOLEAN :
        IF ok
        THEN /\ browserInstance' = NewBrowserId
             /\ Return(NewBrowserId)
        ELSE /\ Throw(<<"Failed to launch the browser process">>)
             /\ UNCHANGED browserInstance
    /\ UNCHANGED <<pagePool, maxPageUses, open, localVars>>

\* a handler that forgets pagePool.clear()
Disconnected_keepsPool(suspended) ==
    /\ browserInstance # 0
    /\ pc \in suspended
    /\ browserInstance' = 0
    /\ open' = {}
    /\ UNCHANGED <<pagePool, maxPageUses, callVars, localVars>>

\* the 'disconnected' handler registered by initBrowser
Disconnected(suspended) ==
    /\ browserInstance # 0
    /\ pc \in suspended
    /\ browserInstance' = 0
    /\ pagePool' = <<>>
    /\ open' = {}
    /\ UNCHANGED <<maxPageUses, callVars, localVars>>

\* ---- getPage
gp_start ==
    /\ pc = "gp_start"
    /\ Call("ib_start", "gp_scan")
    /\ UNCHANGED <<poolVars, rv, exc, localVars>>

UnderLimit_inclusive(e) == e.uses <= maxPageUses

UnderLimit(e) == e.uses < maxPageUses

OverLimit(e) == e.uses >= maxPageUses

gp_scan ==
    /\ pc = "gp_scan"
    /\ IF exc # NoError
       THEN /\ Throw(exc)
            /\ gpForceNew' = FALSE
            /\ UNCHANGED <<pagePool, gpBrowser>>
       ELSE LET i == FirstIndex({k \in 1..Len(pagePool) : UnderLimit(pagePool[k])}) IN
            IF ~gpForceNew /\ i # 0
            THEN /\ pagePool' = [pagePool EXCEPT ![i].uses = @ + 1]
                 /\ Return(pagePool[i].page)
                 /\ UNCHANGED <<gpBrowser, gpForceNew>>
            ELSE /\ gpBrowser' = rv
                 /\ pc' = "gp_evict"
                 /\ UNCHANGED <<pagePool, stack, rv, exc, gpForceNew>>
    /\ UNCHANGED <<browserInstance, maxPageUses, open,
                   gpPage, victim, rpPage, cbIdx>>

gp_evict ==
    /\ pc = "gp_evict"
    /\ LET i == FirstIndex({k \in 1..Len(pagePool) : OverLimit(pagePool[k])}) IN
        IF i # 0
        THEN victim' = pagePool[i].page /\ pc' = "gp_evict_closing"
        ELSE victim' = 0 /\ pc' = "gp_limit"
    /\ UNCHANGED <<poolVars, stack, rv, exc,
                   gpForceNew, gpBrowser, gpPage, rpPage, cbIdx>>

gp_evict_closing ==
    /\ pc = "gp_evict_closing"
    /\ ClosePage(victim)
    /\ pagePool' = PoolDelete(pagePool, victim)
    /\ pc' = "gp_evict"
    /\ UNCHANGED <<browserInstance, maxPageUses, stack, rv, exc,
                   localVars>>

PoolFull_above(pool) == Len(pool) > MAX_PAGES

PoolFull(pool) == Len(pool) >= MAX_PAGES

OldestPage_newest(pool) == pool[Len(pool)].page

\* pagePool.keys().next().value
OldestPage(pool) == pool[1].page

gp_limit ==
    /\ pc = "gp_limit"
    /\ IF PoolFull(pagePool)
       THEN victim' = OldestPage(pagePool) /\ pc' = "gp_limit_closing"
       ELSE victim' = 0 /\ pc' = "gp_creating"
    /\ UNCHANGED <<poolVars, stack, rv, exc,
                   gpForceNew, gpBrowser, gpPage, rpPage, cbIdx>>

gp_limit_closing ==
    /\ pc = "gp_limit_closing"
    /\ ClosePage(victim)
    /\ pagePool' = PoolDelete(pagePool, victim)
    /\ victim' = 0
    /\ pc' = "gp_creating"
    /\ UNCHANGED <<browserInstance, maxPageUses, stack, rv, exc,
                   gpForceNew, gpBrowser, gpPage, rpPage, cbIdx>>

\* await browser.newPage(): fails when the browser is gone, or for any
\* other reason; the catch of getPage logs and rethrows
gp_creating ==
    /\ pc = "gp_creating"
    /\ \E ok \in BOOLEAN :
        IF ok /\ gpBrowser = browserInstance /\ FreshPages # {}
        THEN /\ gpPage' = NewPageId
             /\ open' = open \cup {NewPageId}
             /\ pc' = "gp_configuring"
             /\ UNCHANGED <<stack, rv, exc>>
        ELSE /\ Throw(<<"Failed to create page">>)
             /\ gpPage' = 0
             /\ UNCHANGED open
    /\ gpForceNew' = (gpForceNew /\ pc' = "gp_configuring")
    /\ gpBrowser' = IF pc' = "gp_configuring" THEN gpBrowser ELSE 0
    /\ UNCHANGED <<browserInstance, pagePool, maxPageUses,
                   victim, rpPage, cbIdx>>

\* setViewport .. setRequestInterception, then pagePool.set(page, {uses: 1})
gp_configuring ==
    /\ pc = "gp_configuring"
    /\ \E ok \in BOOLEAN :
        IF ok /\ gpPage \in open
        THEN /\ pagePool' = Append(pagePool, [page |-> gpPage, uses |-> 1])
             /\ Return(gpPage)
        ELSE /\ Throw(<<"Failed to configure page">>)
             /\ UNCHANGED pagePool
    /\ gpPage' = 0
    /\ gpForceNew' = FALSE
    /\ gpBrowser' = 0
    /\ UNCHANGED <<browserInstance, maxPageUses, open,
                   victim, rpPage, cbIdx>>

\* ---- recyclePage
rp_start ==
    /\ pc = "rp_start"
    /\ pagePool' = PoolDelete(pagePool, rpPage)
    /\ victim' = rpPage
    /\ pc' = "rp_closing"
    /\ UNCHANGED <<browserInstance, maxPageUses, open, stack, rv,
                   exc, gpForceNew, gpBrowser, gpPage, rpPage, cbIdx>>

\* try { await page.close() } catch { log }; return await getPage(true)
rp_closing ==
    /\ pc = "rp_closing"
    /\ ClosePage(victim)
    /\ victim' = 0
    /\ rpPage' = 0
    /\ gpForceNew' = TRUE
    /\ pc' = "gp_start"
    /\ UNCHANGED <<browserInstance, pagePool, maxPageUses, stack,
                   rv, exc, gpBrowser, gpPage, cbIdx>>

\* ---- closeBrowser
cb_start ==
    /\ pc = "cb_start"
    /\ IF browserInstance = 0
       THEN Return(0) /\ UNCHANGED cbIdx
       ELSE cbIdx' = 1 /\ pc' = "cb_loop" /\ UNCHANGED <<stack, rv, exc>>
    /\ UNCHANGED <<poolVars, gpForceNew, gpBrowser, gpPage, victim, rpPage>>

\* for (const [page] of pagePool.entries()); after the loop pagePool.clear()
\* and browserInstance.close(), a TypeError when the handle is null by then
cb_loop ==
    /\ pc = "cb_loop"
    /\ IF cbIdx <= Len(pagePool)
       THEN /\ victim' = pagePool[cbIdx].page
            /\ pc' = "cb_closing"
            /\ UNCHANGED <<pagePool, cbIdx, stack, rv, exc>>
       ELSE /\ pagePool' = <<>>
            /\ victim' = 0
            /\ cbIdx' = 0
            /\ IF browserInstance = 0
               THEN Return(0)
               ELSE pc' = "cb_browser_closing" /\ UNCHANGED <<stack, rv, exc>>
    /\ UNCHANGED <<browserInstance, maxPageUses, open,
                   gpForceNew, gpBrowser, gpPage, rpPage>>

cb_closing ==
    /\ pc = "cb_closing"
    /\ ClosePage(victim)
    /\ cbIdx' = cbIdx + 1
    /\ pc' = "cb_loop"
    /\ UNCHANGED <<browserInstance, pagePool, maxPageUses, stack,
                   rv, exc, gpForceNew, gpBrowser, gpPage, victim, rpPage>>

\* await browserInstance.close(); browserInstance = null.  A successful
\* close ends the process, which also fires the 'disconnected' handler; a
\* rejected close is caught and leaves browserInstance set.
cb_browser_closing ==
    /\ pc = "cb_browser_closing"
    /\ \E ok \in BOOLEAN :
        IF ok \/ browserInstance = 0
        THEN browserInstance' = 0 /\ pagePool' = <<>> /\ open' = {}
        ELSE UNCHANGED <<browserInstance, pagePool, open>>
    /\ Return(0)
    /\ UNCHANGED <<maxPageUses, localVars>>

\* ------------------------------------------- a single caller of the pool
InitPool ==
    /\ browserInstance = 0
    /\ pagePool = <<>>
    /\ maxPageUses \in
         MAX_PAGE_USES_MIN..(MAX_PAGE_USES_MIN + MaxUsesDraw - 1)
    /\ MaxUsesDraw <= MAX_PAGE_USES_SPAN
    /\ open = {}
    /\ gpForceNew = FALSE /\ gpBrowser = 0 /\ gpPage = 0 /\ victim = 0
    /\ rpPage = 0 /\ cbIdx = 0

InitCall == pc = "idle" /\ stack = <<>> /\ rv = 0 /\ exc = NoError

drv_getPage ==
    /\ pc = "idle"
    /\ \E f \in BOOLEAN :
        /\ gpForceNew' = f
        /\ drvOp' = [op |-> "getPage", forceNew |-> f]
    /\ drvPool' = pagePool
    /\ Call("gp_start", "drv_ret")
    /\ UNCHANGED <<poolVars, rv, exc, gpBrowser, gpPage, victim, rpPage,
                   cbIdx, callerPage>>

drv_recyclePage ==
    /\ pc = "idle"
    /\ \E p \in (PoolPages \cup {callerPage}) \ {0} :
        /\ rpPage' = p
        /\ drvOp' = [op |-> "recyclePage", page |-> p]
    /\ drvPool' = pagePool
    /\ Call("rp_start", "drv_ret")
    /\ UNCHANGED <<poolVars, rv, exc, gpForceNew, gpBrowser, gpPage, victim,
                   cbIdx, callerPage>>

drv_closeBrowser ==
    /\ pc = "idle"
    /\ drvOp' = [op |-> "closeBrowser"]
    /\ drvPool' = pagePool
    /\ Call("cb_start", "drv_ret")
    /\ UNCHANGED <<poolVars, rv, exc, localVars, callerPage>>

drv_ret ==
    /\ pc = "drv_ret"
    /\ callerPage' = IF exc = NoError /\ rv # 0 THEN rv ELSE callerPage
    /\ drvOp' = [op |-> "none"]
    /\ drvPool' = <<>>
    /\ pc' = "idle"
    /\ rv' = 0
    /\ exc' = NoError
    /\ UNCHANGED <<poolVars, stack, localVars>>

DisconnectedP ==
    /\ Disconnected(PoolSuspended \cup {"idle"})
    /\ UNCHANGED nonPoolVars

InitDriver == callerPage = 0 /\ drvOp = [op |-> "none"] /\ drvPool = <<>>

InitFetchVars ==
    /\ fpUrl = "" /\ fpPage = 0 /\ fpRetries = 0 /\ fpCurrent = 0
    /\ fpRecycled = FALSE /\ fpAttempt = 0 /\ fpLastError = NoError
    /\ fpResp = -1 /\ fpErr = NoError /\ fpTrace = <<>> /\ fpFailures = <<>>

NoResult == [success |-> FALSE, page |-> 0, links |-> <<>>]

InitRunVars ==
    /\ pendingNovels = <<>> /\ pendingChapters = <<>>
    /\ qNovels = <<>> /\ qChapters = <<>> /\ rowsBefore = 0
    /\ pwInit = FALSE /\ pwPage = 0 /\ pwErr = NoError
    /\ bIdx = 0 /\ bPage = 0 /\ dResult = NoResult

InitNoStore == novels = <<>> /\ chapters = <<>>

InitNoDecode ==
    dFont = [file |-> "missing", cmap |-> <<>>] /\ dText = <<>> /\ dMap = <<>>

\* an invocation slot no ParserWrapper run occupies
NoRun ==
    [st |-> "none", by |-> 0, batch |-> "novels", items |-> <<>>, i |-> 0,
     page |-> 0, init |-> FALSE, threw |-> FALSE, marked |-> {}]

Runs == 1..MaxRuns

InitNoSched ==
    /\ parserRunning = FALSE
    /\ runs = [r \in Runs |-> NoRun]
    /\ ticks = 0
    /\ startup = FALSE

NoWait == [kind |-> "none", ms |-> 0]

InitNoWait == wAttempt = 0 /\ wDelay = NoWait

NoSite ==
    [statuses |-> {}, challenges |-> {}, navigationErrors |-> {},
     captchas |-> {}, htmlLengths |-> {}, bodies |-> {}, linkLists |-> {},
     extractions |-> {}]

InitP ==
    /\ InitPool /\ InitCall /\ InitDriver /\ InitFetchVars
    /\ InitNoStore /\ InitRunVars /\ InitNoDecode
    /\ InitNoSched /\ InitNoWait
    /\ site = NoSite

NextP ==
    \/ ib_start /\ UNCHANGED nonPoolVars
    \/ ib_launching /\ UNCHANGED nonPoolVars
    \/ gp_start /\ UNCHANGED nonPoolVars
    \/ gp_scan /\ UNCHANGED nonPoolVars
    \/ gp_evict /\ UNCHANGED nonPoolVars
    \/ gp_evict_closing /\ UNCHANGED nonPoolVars
    \/ gp_limit /\ UNCHANGED nonPoolVars
    \/ gp_limit_closing /\ UNCHANGED nonPoolVars
    \/ gp_creating /\ UNCHANGED nonPoolVars
    \/ gp_configuring /\ UNCHANGED nonPoolVars
    \/ rp_start /\ UNCHANGED nonPoolVars
    \/ rp_closing /\ UNCHANGED nonPoolVars
    \/ cb_start /\ UNCHANGED nonPoolVars
    \/ cb_loop /\ UNCHANGED nonPoolVars
    \/ cb_closing /\ UNCHANGED nonPoolVars
    \/ cb_browser_closing /\ UNCHANGED nonPoolVars
    \/ drv_getPage /\ UNCHANGED nonDriverVars
    \/ drv_recyclePage /\ UNCHANGED nonDriverVars
    \/ drv_closeBrowser /\ UNCHANGED nonDriverVars
    \/ drv_ret /\ UNCHANGED nonDriverVars
    \/ DisconnectedP

SpecPool == InitP /\ [][NextP]_vars

\* ============================================================ fetch_page.js
\* A message is a sequence of text pieces; String.includes is Contains.
Contains(m, sub) ==
    \E i \in 0..(Len(m) - Len(sub)) : SubSeq(m, i + 1, i + Len(sub)) = sub

\* template literal `${n}` for the numbers that occur in messages
NumText(n) ==
    CASE n = 1 -> "1" [] n = 2 -> "2" [] n = 3 -> "3" [] n = 4 -> "4"
      [] n = 5 -> "5" [] n = 200 -> "200" [] n = 403 -> "403"
      [] n = 404 -> "404" [] n = 500 -> "500" [] n = 503 -> "503"
      [] OTHER -> "?"

InvalidUrlError == <<"Invalid URL provided">>
PageRequiredError == <<"Page object is required">>
NoResponseError == <<"No response received">>
NotFoundError(url) == <<"Page not found: ", url>>
ServerError(status) == <<"Server error (", NumText(status), ")">>
CaptchaError == <<"CAPTCHA detected but could not be solved">>
ContentError == <<"Page content too short or empty">>
ChallengeError == <<"Cloudflare challenge failed (JS disabled or detected)">>

ExhaustedPrefix(url, retries) ==
    <<"Failed to fetch ", url, " after ", NumText(retries), " attempts: ">>

ExhaustedError(url, retries, lastMessage) ==
    ExhaustedPrefix(url, retries) \o lastMessage

\* errors the browser library raises on a navigation or a page call
NavigationErrors ==
    {<<"Navigation timeout of 60000 ms exceeded">>,
     <<"net::ERR_CONNECTION_RESET">>}
TargetClosedError == <<"Protocol error: Target closed">>

\* what the site can answer
Statuses == {200, 403, 404, 500, 503}
HtmlLengths == {0, 99, 100, 4999, 5000}
Bodies ==
    {<<"chapter", "one">>,
     <<"Enable", "JavaScript", "and", "cookies", "to", "continue">>,
     <<"access", "denied", "for", "your", "ip">>,
     <<"Access", "Denied">>,
     <<"this", "site", "blocked", "ads">>}

\* String.prototype.toLowerCase, word by word
LowerWord(w) ==
    CASE w = "Enable" -> "enable" [] w = "JavaScript" -> "javascript"
      [] w = "Access" -> "access" [] w = "Denied" -> "denied"
      [] OTHER -> w

toLowerCase(text) == [i \in 1..Len(text) |-> LowerWord(text[i])]

\* bodyText.includes('Enable JavaScript and cookies to continue')
JsChallengePhrase ==
    <<"Enable", "JavaScript", "and", "cookies", "to", "continue">>

isBlocked(htmlLength, bodyText) ==
    \/ Contains(bodyText, <<"access", "denied", "for", "your", "ip">>)
    \/ Contains(bodyText, <<"your", "request", "was", "blocked">>)
    \/ Contains(bodyText, <<"rate", "limit", "exceeded">>)
    \/ Contains(bodyText, <<"too", "many", "requests", "from", "your", "ip">>)
    \/ (htmlLength < 5000 /\ (\/ Contains(bodyText, <<"access", "denied">>)
                              \/ Contains(bodyText, <<"blocked">>)))

Event(e, n) == [ev |-> e, res |-> n]

FetchSuspended ==
    {"fp_goto", "fp_challenge", "fp_settle", "fp_content", "fp_block_wait",
     "fp_backoff"}

\* argument checks, then the pre-emptive recycle
fp_start ==
    /\ pc = "fp_start"
    /\ fpCurrent' = fpPage
    /\ fpRecycled' = FALSE
    /\ fpAttempt' = 0
    /\ fpLastError' = NoError
    /\ fpResp' = -1
    /\ fpErr' = NoError
    /\ fpTrace' = <<>>
    /\ fpFailures' = <<>>
    /\ IF fpUrl = ""
       THEN Throw(InvalidUrlError) /\ UNCHANGED rpPage
       ELSE IF fpPage = 0
       THEN Throw(PageRequiredError) /\ UNCHANGED rpPage
       ELSE IF getPageStats(pagePool, fpPage).shouldRecycle
       THEN /\ rpPage' = fpPage
            /\ Call("rp_start", "fp_pre_ret")
            /\ UNCHANGED <<rv, exc>>
       ELSE /\ pc' = "fp_loop"
            /\ UNCHANGED <<stack, rv, exc, rpPage>>
    /\ UNCHANGED <<poolVars, gpVars, victim, cbIdx, fpUrl, fpPage, fpRetries>>

\* currentPage = await recyclePage(currentPage), outside any try block
fp_pre_ret ==
    /\ pc = "fp_pre_ret"
    /\ IF exc # NoError
       THEN /\ Throw(exc)
            /\ UNCHANGED <<fpCurrent, fpRecycled, fpTrace>>
       ELSE /\ fpCurrent' = rv
            /\ fpRecycled' = TRUE
            /\ fpTrace' = Append(fpTrace, Event("recycle", 0))
            /\ pc' = "fp_loop"
            /\ rv' = 0
            /\ UNCHANGED <<stack, exc>>
    /\ UNCHANGED <<poolVars, localVars, fpUrl, fpPage, fpRetries, fpAttempt,
                   fpLastError, fpResp, fpErr, fpFailures>>

\* for (attempt < retries) { delay; goto } ... throw after the loop
fp_loop ==
    /\ pc = "fp_loop"
    /\ IF fpAttempt < fpRetries
       THEN pc' = "fp_goto" /\ UNCHANGED <<stack, rv, exc>>
       ELSE Throw(ExhaustedError(fpUrl, fpRetries, fpLastError))
    /\ fpResp' = -1
    /\ fpErr' = NoError
    /\ UNCHANGED <<poolVars, localVars, fpUrl, fpPage, fpRetries, fpCurrent,
                   fpRecycled, fpAttempt, fpLastError, fpTrace, fpFailures>>

\* await delay(..); response = await currentPage.goto(..); title check
fp_goto ==
    /\ pc = "fp_goto"
    /\ \/ \E m \in site.navigationErrors :
            /\ fpErr' = m
            /\ fpTrace' = Append(fpTrace, Event("goto", -2))
            /\ pc' = "fp_catch"
            /\ UNCHANGED fpResp
       \/ /\ fpCurrent \notin open
          /\ fpErr' = TargetClosedError
          /\ fpTrace' = Append(fpTrace, Event("goto", -2))
          /\ pc' = "fp_catch"
          /\ UNCHANGED fpResp
       \/ /\ fpCurrent \in open
          /\ \E r \in site.statuses, challenge \in site.challenges :
                /\ fpResp' = r
                /\ fpTrace' = Append(fpTrace, Event("goto", r))
                /\ pc' = IF challenge THEN "fp_challenge" ELSE "fp_status"
                /\ UNCHANGED fpErr
    /\ UNCHANGED <<poolVars, stack, rv, exc, localVars, fpUrl, fpPage,
                   fpRetries, fpCurrent, fpRecycled, fpAttempt, fpLastError,
                   fpFailures>>

\* waitForFunction(title changed, 20 s); its timeout is caught and logged
fp_challenge ==
    /\ pc = "fp_challenge"
    /\ pc' = "fp_status"
    /\ UNCHANGED <<poolVars, stack, rv, exc, localVars, fpVars>>

\* the status-code policy
StatusFailure(resp, url) ==
    IF resp = 0 THEN NoResponseError
    ELSE IF resp = 404 THEN NotFoundError(url)
    ELSE IF resp >= 500 THEN ServerError(resp)
    ELSE NoError

fp_status ==
    /\ pc = "fp_status"
    /\ fpErr' = StatusFailure(fpResp, fpUrl)
    /\ pc' = IF fpErr' # NoError THEN "fp_catch" ELSE "fp_settle"
    /\ UNCHANGED <<poolVars, stack, rv, exc, localVars, fpUrl, fpPage,
                   fpRetries, fpCurrent, fpRecycled, fpAttempt, fpLastError,
                   fpResp, fpTrace, fpFailures>>

\* handleCaptcha: true when no CAPTCHA element is found or it is solved;
\* false when it is not solved, or when any page call throws
CaptchaOutcomes == {"none", "solved", "unsolved", "solver throws"}

\* a handler that takes a throwing solver for a solved CAPTCHA
handleCaptcha_trusting(pageOpen, outcome) ==
    pageOpen /\ outcome \in {"none", "solved", "solver throws"}

handleCaptcha(pageOpen, outcome) ==
    pageOpen /\ outcome \in {"none", "solved"}

\* await delay(settle); captchaSolved = await handleCaptcha(currentPage);
\* the trace keeps what the solver did with a CAPTCHA element that was found
fp_settle ==
    /\ pc = "fp_settle"
    /\ \E o \in site.captchas :
        /\ IF handleCaptcha(fpCurrent \in open, o)
           THEN pc' = "fp_content" /\ UNCHANGED fpErr
           ELSE pc' = "fp_catch" /\ fpErr' = CaptchaError
        /\ fpTrace' = IF fpCurrent \in open /\ o # "none"
                      THEN Append(fpTrace, Event(o, fpAttempt))
                      ELSE fpTrace
    /\ UNCHANGED <<poolVars, stack, rv, exc, localVars, fpUrl, fpPage,
                   fpRetries, fpCurrent, fpRecycled, fpAttempt, fpLastError,
                   fpResp, fpFailures>>

\* the checks on html and bodyText
ContentFailure(htmlLength, body) ==
    IF htmlLength < 100 THEN ContentError
    ELSE IF Contains(toLowerCase(body), JsChallengePhrase) THEN ChallengeError
    ELSE NoError

BlockRetry(htmlLength, body, attempt, retries) ==
    isBlocked(htmlLength, toLowerCase(body)) /\ attempt < retries - 1

\* simulateHumanBehavior; html = await content(); bodyText = await evaluate
fp_content ==
    /\ pc = "fp_content"
    /\ \/ /\ fpCurrent \notin open
          /\ fpErr' = TargetClosedError
          /\ pc' = "fp_catch"
          /\ UNCHANGED <<stack, rv, exc>>
       \/ /\ fpCurrent \in open
          /\ \E n \in site.htmlLengths, b \in site.bodies :
                IF ContentFailure(n, b) # NoError
                THEN /\ fpErr' = ContentFailure(n, b)
                     /\ pc' = "fp_catch"
                     /\ UNCHANGED <<stack, rv, exc>>
                ELSE IF BlockRetry(n, b, fpAttempt, fpRetries)
                THEN /\ pc' = "fp_block_wait"
                     /\ UNCHANGED <<stack, rv, exc, fpErr>>
                ELSE /\ Return([html |-> [length |-> n, body |-> b],
                                page |-> fpCurrent,
                                recycled |-> fpRecycled])
                     /\ UNCHANGED fpErr
    /\ UNCHANGED <<poolVars, localVars, fpUrl, fpPage, fpRetries, fpCurrent,
                   fpRecycled, fpAttempt, fpLastError, fpResp, fpTrace,
                   fpFailures>>

\* await delay(blockDelay); currentPage = await recyclePage(currentPage)
fp_block_wait ==
    /\ pc = "fp_block_wait"
    /\ fpTrace' = Append(fpTrace, Event("blockwait", fpAttempt))
    /\ rpPage' = fpCurrent
    /\ Call("rp_start", "fp_block_ret")
    /\ UNCHANGED <<poolVars, rv, exc, gpVars, victim, cbIdx, fpUrl, fpPage,
                   fpRetries, fpCurrent, fpRecycled, fpAttempt, fpLastError,
                   fpResp, fpErr, fpFailures>>

\* inside the try block: a failed recycle goes to the catch; otherwise
\* wasRecycled = true; continue
fp_block_ret ==
    /\ pc = "fp_block_ret"
    /\ IF exc # NoError
       THEN /\ fpErr' = exc
            /\ pc' = "fp_catch"
            /\ UNCHANGED <<fpCurrent, fpRecycled, fpAttempt, fpTrace>>
       ELSE /\ fpCurrent' = rv
            /\ fpRecycled' = TRUE
            /\ fpAttempt' = fpAttempt + 1
            /\ fpTrace' = Append(fpTrace, Event("recycle", 0))
            /\ pc' = "fp_loop"
            /\ UNCHANGED fpErr
    /\ rv' = 0
    /\ exc' = NoError
    /\ UNCHANGED <<poolVars, stack, localVars, fpUrl, fpPage, fpRetries,
                   fpLastError, fpResp, fpFailures>>

lastErrorAfter_first(last, error) == IF last = NoError THEN error ELSE last

\* lastError = error
lastErrorAfter(last, error) == error

\* if (attempt < retries - 1)
MoreAttempts(attempt, retries) == attempt < retries - 1

\* catch (error) { lastError = error; ... }
fp_catch ==
    /\ pc = "fp_catch"
    /\ fpLastError' = lastErrorAfter(fpLastError, fpErr)
    /\ fpFailures' = Append(fpFailures, fpErr)
    /\ IF MoreAttempts(fpAttempt, fpRetries)
       THEN /\ pc' = "fp_backoff"
            /\ fpTrace' = Append(fpTrace, Event("backoff", fpAttempt))
            /\ UNCHANGED fpAttempt
       ELSE /\ pc' = "fp_loop"
            /\ fpAttempt' = fpAttempt + 1
            /\ UNCHANGED fpTrace
    /\ UNCHANGED <<poolVars, stack, rv, exc, localVars, fpUrl, fpPage,
                   fpRetries, fpCurrent, fpRecycled, fpResp, fpErr>>

\* a backoff that recycles after the second failure whatever wasRecycled is
fp_backoff_always ==
    /\ pc = "fp_backoff"
    /\ IF fpAttempt = 1
       THEN /\ rpPage' = fpCurrent
            /\ Call("rp_start", "fp_catch_ret")
            /\ UNCHANGED fpAttempt
       ELSE /\ fpAttempt' = fpAttempt + 1
            /\ pc' = "fp_loop"
            /\ UNCHANGED <<stack, rpPage>>
    /\ UNCHANGED <<poolVars, rv, exc, gpVars, victim, cbIdx, fpUrl, fpPage,
                   fpRetries, fpCurrent, fpRecycled, fpLastError, fpResp,
                   fpErr, fpTrace, fpFailures>>

\* await delay(totalDelay); if (attempt === 1 && !wasRecycled) recycle
fp_backoff ==
    /\ pc = "fp_backoff"
    /\ IF fpAttempt = 1 /\ ~fpRecycled
       THEN /\ rpPage' = fpCurrent
            /\ Call("rp_start", "fp_catch_ret")
            /\ UNCHANGED fpAttempt
       ELSE /\ fpAttempt' = fpAttempt + 1
            /\ pc' = "fp_loop"
            /\ UNCHANGED <<stack, rpPage>>
    /\ UNCHANGED <<poolVars, rv, exc, gpVars, victim, cbIdx, fpUrl, fpPage,
                   fpRetries, fpCurrent, fpRecycled, fpLastError, fpResp,
                   fpErr, fpTrace, fpFailures>>

\* a catch-block recycle that forgets wasRecycled = true
fp_catch_ret_unflagged ==
    /\ pc = "fp_catch_ret"
    /\ IF exc # NoError
       THEN /\ Throw(exc)
            /\ UNCHANGED <<fpCurrent, fpAttempt, fpTrace>>
       ELSE /\ fpCurrent' = rv
            /\ fpAttempt' = fpAttempt + 1
            /\ fpTrace' = Append(fpTrace, Event("recycle", 0))
            /\ pc' = "fp_loop"
            /\ rv' = 0
            /\ UNCHANGED <<stack, exc>>
    /\ UNCHANGED <<poolVars, localVars, fpUrl, fpPage, fpRetries, fpRecycled,
                   fpLastError, fpResp, fpErr, fpFailures>>

\* inside the catch block: a failed recycle leaves fetchPage as it is thrown
fp_catch_ret ==
    /\ pc = "fp_catch_ret"
    /\ IF exc # NoError
       THEN /\ Throw(exc)
            /\ UNCHANGED <<fpCurrent, fpRecycled, fpAttempt, fpTrace>>
       ELSE /\ fpCurrent' = rv
            /\ fpRecycled' = TRUE
            /\ fpAttempt' = fpAttempt + 1
            /\ fpTrace' = Append(fpTrace, Event("recycle", 0))
            /\ pc' = "fp_loop"
            /\ rv' = 0
            /\ UNCHANGED <<stack, exc>>
    /\ UNCHANGED <<poolVars, localVars, fpUrl, fpPage, fpRetries,
                   fpLastError, fpResp, fpErr, fpFailures>>

\* ------------------------------------------------ one call of fetchPage
Urls == {"", "https://site/novel/1"}

\* the pool as a caller can have left it: one Session in use (fresh or at its
\* ceiling); an older Session at its ceiling next to the one in use; a full
\* pool from which the caller's page was evicted; no Session after a
\* disconnection or before any acquire.  The caller passes the page it holds.
InitFetchPool ==
    /\ maxPageUses \in
         MAX_PAGE_USES_MIN..(MAX_PAGE_USES_MIN + MaxUsesDraw - 1)
    /\ MaxUsesDraw <= MAX_PAGE_USES_SPAN
    /\ \/ /\ browserInstance = 1
          /\ \E u \in {1, maxPageUses} : pagePool = <<[page |-> 1, uses |-> u]>>
          /\ open = {1}
          /\ callerPage = 1
       \/ /\ browserInstance = 1
          /\ pagePool = <<[page |-> 1, uses |-> maxPageUses],
                          [page |-> 2, uses |-> 1]>>
          /\ open = {1, 2}
          /\ callerPage = 2
       \/ /\ browserInstance = 1
          /\ pagePool = <<[page |-> 1, uses |-> 1], [page |-> 2, uses |-> 1],
                          [page |-> 3, uses |-> 1]>>
          /\ open = {1, 2, 3}
          /\ callerPage = 4
       \/ /\ browserInstance = 0
          /\ pagePool = <<>>
          /\ open = {}
          /\ callerPage \in {0, 1}
    /\ gpForceNew = FALSE /\ gpBrowser = 0 /\ gpPage = 0 /\ victim = 0
    /\ rpPage = 0 /\ cbIdx = 0
    /\ drvOp = [op |-> "none"] /\ drvPool = <<>>

drv_fetchPage ==
    /\ pc = "idle"
    /\ \E u \in Urls, n \in 1..MaxRetries :
        /\ fpUrl' = u
        /\ fpRetries' = n
    /\ fpPage' = callerPage
    /\ UNCHANGED <<fpCurrent, fpRecycled, fpAttempt, fpLastError, fpResp,
                   fpErr, fpTrace, fpFailures>>
    /\ drvOp' = [op |-> "fetchPage"]
    /\ drvPool' = pagePool
    /\ Call("fp_start", "fetch_done")
    /\ UNCHANGED <<poolVars, rv, exc, localVars, callerPage>>

DisconnectedF ==
    /\ Disconnected(PoolSuspended \cup FetchSuspended)
    /\ UNCHANGED nonPoolVars

\* a site that can give any answer to any request
AnySite ==
    [NoSite EXCEPT !.statuses = Statuses \cup {0}, !.challenges = BOOLEAN,
                   !.navigationErrors = NavigationErrors,
                   !.captchas = CaptchaOutcomes, !.htmlLengths = HtmlLengths,
                   !.bodies = Bodies]

InitF ==
    /\ InitFetchPool /\ InitCall /\ InitFetchVars
    /\ InitNoStore /\ InitRunVars /\ InitNoDecode
    /\ InitNoSched /\ InitNoWait
    /\ site = AnySite

NextF ==
    \/ ib_start /\ UNCHANGED nonPoolVars
    \/ ib_launching /\ UNCHANGED nonPoolVars
    \/ gp_start /\ UNCHANGED nonPoolVars
    \/ gp_scan /\ UNCHANGED nonPoolVars
    \/ gp_evict /\ UNCHANGED nonPoolVars
    \/ gp_evict_closing /\ UNCHANGED nonPoolVars
    \/ gp_limit /\ UNCHANGED nonPoolVars
    \/ gp_limit_closing /\ UNCHANGED nonPoolVars
    \/ gp_creating /\ UNCHANGED nonPoolVars
    \/ gp_configuring /\ UNCHANGED nonPoolVars
    \/ rp_start /\ UNCHANGED nonPoolVars
    \/ rp_closing /\ UNCHANGED nonPoolVars
    \/ fp_start /\ UNCHANGED nonFetchVars
    \/ fp_pre_ret /\ UNCHANGED nonFetchVars
    \/ fp_loop /\ UNCHANGED nonFetchVars
    \/ fp_goto /\ UNCHANGED nonFetchVars
    \/ fp_challenge /\ UNCHANGED nonFetchVars
    \/ fp_status /\ UNCHANGED nonFetchVars
    \/ fp_settle /\ UNCHANGED nonFetchVars
    \/ fp_content /\ UNCHANGED nonFetchVars
    \/ fp_block_wait /\ UNCHANGED nonFetchVars
    \/ fp_block_ret /\ UNCHANGED nonFetchVars
    \/ fp_catch /\ UNCHANGED nonFetchVars
    \/ fp_backoff /\ UNCHANGED nonFetchVars
    \/ fp_catch_ret /\ UNCHANGED nonFetchVars
    \/ drv_fetchPage /\ UNCHANGED <<storeVars, runVars, site, decVars,
                                    schedVars, waitVars>>
    \/ DisconnectedF

SpecFetch == InitF /\ [][NextF]_vars

\* ======================================================== the store (db_init)
NovelUrl(k) ==
    CASE k = 1 -> "https://site/novel/1" [] k = 2 -> "https://site/novel/2"
      [] k = 3 -> "https://site/novel/3" [] OTHER -> "https://site/novel/n"

ChapterUrl(k) ==
    CASE k = 1 -> "https://site/chapter/1" [] k = 2 -> "https://site/chapter/2"
      [] k = 3 -> "https://site/chapter/3" [] OTHER -> "https://site/chapter/n"

\* SELECT * FROM novels WHERE status = ?  /  ... FROM chapters WHERE status = ?
RECURSIVE IdsFrom(_, _, _)
IdsFrom(table, status, i) ==
    IF i > Len(table) THEN <<>>
    ELSE IF table[i].status = status
    THEN <<i>> \o IdsFrom(table, status, i + 1)
    ELSE IdsFrom(table, status, i + 1)

getNovelsByStatus_every(table, status) == [i \in 1..Len(table) |-> i]

getNovelsByStatus(table, status) == IdsFrom(table, status, 1)

getChaptersByStatus(table, status) == IdsFrom(table, status, 1)

StatusesOf(table) == [i \in 1..Len(table) |-> table[i].status]

\* a status update that loses the ERROR writes
updateNovelStatus_lost(table, status, id) ==
    IF status = STATUS_ERROR THEN table
    ELSE [table EXCEPT ![id].status = status]

\* UPDATE .. SET status = ? WHERE id = ?
updateNovelStatus(table, status, id) == [table EXCEPT ![id].status = status]

updateChapterStatus(table, status, id) == [table EXCEPT ![id].status = status]

\* an update that writes the status only
updateNovel_statusOnly(table, id, total, status) ==
    [table EXCEPT ![id].status = status]

\* UPDATE novels SET .., total_chapters = ?, status = ? WHERE id = ?
updateNovel(table, id, total, status) ==
    [table EXCEPT ![id].status = status, ![id].total_chapters = total]

\* UPDATE chapters SET title = ?, content = ?, status = ? WHERE id = ?
updateChapter(table, id, content, status) ==
    [table EXCEPT ![id].status = status, ![id].content = content]

\* INSERT OR REPLACE: a duplicate url overwrites the stored row
insertChapter_replace(table, novelId, url, status) ==
    IF \E i \in 1..Len(table) : table[i].url = url
    THEN [i \in 1..Len(table) |->
            IF table[i].url = url
            THEN [novel_id |-> novelId, url |-> url, status |-> status,
                  content |-> "null"]
            ELSE table[i]]
    ELSE Append(table, [novel_id |-> novelId, url |-> url, status |-> status,
                        content |-> "null"])

\* INSERT INTO chapters ..: url is UNIQUE, a duplicate raises and the caller
\* ignores it
insertChapter(table, novelId, url, status) ==
    IF \E i \in 1..Len(table) : table[i].url = url THEN table
    ELSE Append(table, [novel_id |-> novelId, url |-> url, status |-> status,
                        content |-> "null"])

\* for (const chapter of result.chapters) insertChapter(..)
RECURSIVE insertChapters(_, _, _)
insertChapters(table, novelId, links) ==
    IF links = <<>> THEN table
    ELSE insertChapters(
            insertChapter(table, novelId, Head(links), STATUS_PENDING),
            novelId, Tail(links))

\* ======================================== parser_init.js: the orchestrator
\* what extractTableOfContents can return: the links of the page, without
\* duplicates, in document order
LinkLists ==
    {l \in UNION {[1..n -> {ChapterUrl(k) : k \in 1..MaxUrls}] : n \in 0..MaxUrls} :
        \A i, j \in 1..Len(l) : i # j => l[i] # l[j]}

RunSuspended ==
    {"dn_extract", "pn_delay", "pn_catch_wait", "dc_extract", "pch_delay",
     "pch_catch_wait"}

ResetFetch ==
    /\ fpUrl' = "" /\ fpPage' = 0 /\ fpRetries' = 0 /\ fpCurrent' = 0
    /\ fpRecycled' = FALSE /\ fpAttempt' = 0 /\ fpLastError' = NoError
    /\ fpResp' = -1 /\ fpErr' = NoError /\ fpTrace' = <<>>
    /\ fpFailures' = <<>>

\* ---- ParserWrapper
\* pendingNovels = getNovelsByStatus(PENDING); if any: await initBrowser()
pw_start ==
    /\ pc = "idle"
    /\ pendingNovels' = getNovelsByStatus(novels, STATUS_PENDING)
    /\ qNovels' = StatusesOf(novels)
    /\ rowsBefore' = Len(chapters)
    /\ IF Len(pendingNovels') > 0
       THEN Call("ib_start", "pw_n_ib")
       ELSE pc' = "pw_chapters" /\ UNCHANGED stack
    /\ UNCHANGED <<poolVars, rv, exc, localVars, fpVars, storeVars,
                   pendingChapters, qChapters, pwInit, pwPage, pwErr, bIdx,
                   bPage, dResult>>

\* page = await getPage()
pw_n_ib ==
    /\ pc = "pw_n_ib"
    /\ IF exc # NoError
       THEN /\ pwErr' = exc
            /\ pc' = "pw_finally"
            /\ UNCHANGED <<stack, gpForceNew>>
       ELSE /\ gpForceNew' = FALSE
            /\ Call("gp_start", "pw_n_gp")
            /\ UNCHANGED pwErr
    /\ rv' = 0
    /\ exc' = NoError
    /\ UNCHANGED <<poolVars, gpBrowser, gpPage, victim, rpPage, cbIdx, fpVars,
                   storeVars, pendingNovels, pendingChapters, qNovels,
                   qChapters, rowsBefore, pwInit, pwPage, bIdx, bPage, dResult>>

\* browserInitialized = true; ParseNovels({novels: pendingNovels, page})
pw_n_gp ==
    /\ pc = "pw_n_gp"
    /\ IF exc # NoError
       THEN /\ pwErr' = exc
            /\ pc' = "pw_finally"
            /\ UNCHANGED <<pwInit, pwPage, bIdx, bPage>>
       ELSE /\ pwPage' = rv
            /\ pwInit' = TRUE
            /\ bPage' = rv
            /\ bIdx' = 1
            /\ pc' = "pn_loop"
            /\ UNCHANGED pwErr
    /\ rv' = 0
    /\ exc' = NoError
    /\ UNCHANGED <<poolVars, stack, localVars, fpVars, storeVars,
                   pendingNovels, pendingChapters, qNovels, qChapters, rowsBefore,
                   dResult>>

\* ---- ParseNovels
\* for (i < novels.length) { stats = getPageStats(currentPage); recycle? }
\* after the loop: return {page: currentPage}; page = result.page
pn_loop ==
    /\ pc = "pn_loop"
    /\ IF bIdx > Len(pendingNovels)
       THEN /\ pwPage' = bPage
            /\ pc' = "pw_chapters"
            /\ UNCHANGED <<stack, rpPage>>
       ELSE IF getPageStats(pagePool, bPage).shouldRecycle
       THEN /\ rpPage' = bPage
            /\ Call("rp_start", "pn_recycle_ret")
            /\ UNCHANGED pwPage
       ELSE /\ pc' = "pn_mark"
            /\ UNCHANGED <<stack, rpPage, pwPage>>
    /\ UNCHANGED <<poolVars, rv, exc, gpVars, victim, cbIdx, fpVars,
                   storeVars, pendingNovels, pendingChapters, qNovels,
                   qChapters, rowsBefore, pwInit, pwErr, bIdx, bPage, dResult>>

\* currentPage = await recyclePage(currentPage), inside the item's try
pn_recycle_ret ==
    /\ pc = "pn_recycle_ret"
    /\ IF exc # NoError
       THEN pc' = "pn_catch" /\ UNCHANGED bPage
       ELSE pc' = "pn_mark" /\ bPage' = rv
    /\ rv' = 0
    /\ exc' = NoError
    /\ UNCHANGED <<poolVars, stack, localVars, fpVars, storeVars,
                   pendingNovels, pendingChapters, qNovels, qChapters, rowsBefore,
                   pwInit, pwPage, pwErr, bIdx, dResult>>

\* updateNovelStatus(PROCESSING, novel.id); discoverNovel(novel.id,
\* currentPage) up to its call fetchPage(novel.url, page)
pn_mark ==
    /\ pc = "pn_mark"
    /\ novels' = updateNovelStatus(novels, STATUS_PROCESSING,
                                   pendingNovels[bIdx])
    /\ fpUrl' = novels[pendingNovels[bIdx]].url
    /\ fpPage' = bPage
    /\ fpRetries' = DEFAULT_RETRIES
    /\ Call("fp_start", "dn_fetch_ret")
    /\ UNCHANGED <<poolVars, rv, exc, localVars, fpCurrent, fpRecycled,
                   fpAttempt, fpLastError, fpResp, fpErr, fpTrace,
                   fpFailures, chapters, runVars>>

\* ---- discoverNovel, after fetchPage
\* a fetchPage error is caught: updateNovelStatus(-1); {success: false}
dn_fetch_ret ==
    /\ pc = "dn_fetch_ret"
    /\ IF exc # NoError
       THEN /\ novels' = updateNovelStatus(novels, STATUS_ERROR,
                                           pendingNovels[bIdx])
            /\ dResult' = [success |-> FALSE, page |-> 0, links |-> <<>>]
            /\ pc' = "pn_result"
       ELSE /\ pc' = "dn_extract"
            /\ UNCHANGED <<novels, dResult>>
    /\ rv' = 0
    /\ exc' = NoError
    /\ UNCHANGED <<poolVars, stack, localVars, fpVars, chapters,
                   pendingNovels, pendingChapters, qNovels, qChapters, rowsBefore, pwInit,
                   pwPage, pwErr, bIdx, bPage>>

\* the extract* helpers read the page discoverNovel was given (each catches
\* its own errors: a closed page gives no links); updateNovel(status 1);
\* the result carries no page
dn_extract ==
    /\ pc = "dn_extract"
    /\ \E links \in site.linkLists :
        /\ fpPage \in open \/ links = <<>>
        /\ novels' = updateNovel(novels, pendingNovels[bIdx], Len(links),
                                 STATUS_SUCCESS)
        /\ dResult' = [success |-> TRUE, page |-> 0, links |-> links]
    /\ pc' = "pn_result"
    /\ UNCHANGED <<poolVars, stack, rv, exc, localVars, fpVars, chapters,
                   pendingNovels, pendingChapters, qNovels, qChapters, rowsBefore, pwInit,
                   pwPage, pwErr, bIdx, bPage>>

\* if (result.page) currentPage = result.page; success: insert the chapters;
\* otherwise updateNovelStatus(ERROR)
pn_result ==
    /\ pc = "pn_result"
    /\ bPage' = IF dResult.page # 0 THEN dResult.page ELSE bPage
    /\ IF dResult.success
       THEN /\ chapters' = insertChapters(chapters, pendingNovels[bIdx],
                                          dResult.links)
            /\ UNCHANGED novels
       ELSE /\ novels' = updateNovelStatus(novels, STATUS_ERROR,
                                           pendingNovels[bIdx])
            /\ UNCHANGED chapters
    /\ dResult' = NoResult
    /\ ResetFetch
    /\ pc' = "pn_delay"
    /\ UNCHANGED <<poolVars, stack, rv, exc, localVars, pendingNovels,
                   pendingChapters, qNovels, qChapters, rowsBefore, pwInit, pwPage, pwErr,
                   bIdx>>

\* await delay(2-4 s); i++
pn_delay ==
    /\ pc = "pn_delay"
    /\ bIdx' = bIdx + 1
    /\ pc' = "pn_loop"
    /\ UNCHANGED <<poolVars, stack, rv, exc, localVars, fpVars, storeVars,
                   pendingNovels, pendingChapters, qNovels, qChapters, rowsBefore, pwInit,
                   pwPage, pwErr, bPage, dResult>>

\* catch (error) { updateNovelStatus(ERROR); await delay(5000); ..
pn_catch ==
    /\ pc = "pn_catch"
    /\ novels' = updateNovelStatus(novels, STATUS_ERROR, pendingNovels[bIdx])
    /\ pc' = "pn_catch_wait"
    /\ UNCHANGED <<poolVars, stack, rv, exc, localVars, fpVars, chapters,
                   runVars>>

\* .. if (Math.random() > 0.5) currentPage = await recyclePage(currentPage) }
pn_catch_wait ==
    /\ pc = "pn_catch_wait"
    /\ \E recycle \in BOOLEAN :
        IF recycle
        THEN /\ rpPage' = bPage
             /\ Call("rp_start", "pn_catch_ret")
             /\ UNCHANGED bIdx
        ELSE /\ bIdx' = bIdx + 1
             /\ pc' = "pn_loop"
             /\ UNCHANGED <<stack, rpPage>>
    /\ UNCHANGED <<poolVars, rv, exc, gpVars, victim, cbIdx, fpVars,
                   storeVars, pendingNovels, pendingChapters, qNovels,
                   qChapters, rowsBefore, pwInit, pwPage, pwErr, bPage, dResult>>

\* the recycle inside the catch block: its error leaves ParseNovels, and
\* ParserWrapper's catch rethrows it after the finally block
pn_catch_ret ==
    /\ pc = "pn_catch_ret"
    /\ IF exc # NoError
       THEN /\ pwErr' = exc
            /\ pc' = "pw_finally"
            /\ UNCHANGED <<bPage, bIdx>>
       ELSE /\ bPage' = rv
            /\ bIdx' = bIdx + 1
            /\ pc' = "pn_loop"
            /\ UNCHANGED pwErr
    /\ rv' = 0
    /\ exc' = NoError
    /\ UNCHANGED <<poolVars, stack, localVars, fpVars, storeVars,
                   pendingNovels, pendingChapters, qNovels, qChapters, rowsBefore, pwInit,
                   pwPage, dResult>>

\* ---- ParserWrapper, second half
\* pendingChapters = getChaptersByStatus(PENDING); if any: the browser is
\* initialised unless the novel batch did it; ParseChapters
pw_chapters ==
    /\ pc = "pw_chapters"
    /\ pendingChapters' = getChaptersByStatus(chapters, STATUS_PENDING)
    /\ qChapters' = StatusesOf(chapters)
    /\ IF Len(pendingChapters') = 0
       THEN /\ pc' = "pw_finally"
            /\ UNCHANGED <<stack, bIdx, bPage>>
       ELSE IF ~pwInit
       THEN /\ Call("ib_start", "pw_c_ib")
            /\ UNCHANGED <<bIdx, bPage>>
       ELSE /\ bPage' = pwPage
            /\ bIdx' = 1
            /\ pc' = "pch_loop"
            /\ UNCHANGED stack
    /\ UNCHANGED <<poolVars, rv, exc, localVars, fpVars, storeVars,
                   pendingNovels, qNovels, rowsBefore, pwInit, pwPage, pwErr,
                   dResult>>

pw_c_ib ==
    /\ pc = "pw_c_ib"
    /\ IF exc # NoError
       THEN /\ pwErr' = exc
            /\ pc' = "pw_finally"
            /\ UNCHANGED <<stack, gpForceNew>>
       ELSE /\ gpForceNew' = FALSE
            /\ Call("gp_start", "pw_c_gp")
            /\ UNCHANGED pwErr
    /\ rv' = 0
    /\ exc' = NoError
    /\ UNCHANGED <<poolVars, gpBrowser, gpPage, victim, rpPage, cbIdx, fpVars,
                   storeVars, pendingNovels, pendingChapters, qNovels,
                   qChapters, rowsBefore, pwInit, pwPage, bIdx, bPage, dResult>>

pw_c_gp ==
    /\ pc = "pw_c_gp"
    /\ IF exc # NoError
       THEN /\ pwErr' = exc
            /\ pc' = "pw_finally"
            /\ UNCHANGED <<pwInit, pwPage, bIdx, bPage>>
       ELSE /\ pwPage' = rv
            /\ pwInit' = TRUE
            /\ bPage' = rv
            /\ bIdx' = 1
            /\ pc' = "pch_loop"
            /\ UNCHANGED pwErr
    /\ rv' = 0
    /\ exc' = NoError
    /\ UNCHANGED <<poolVars, stack, localVars, fpVars, storeVars,
                   pendingNovels, pendingChapters, qNovels, qChapters, rowsBefore,
                   dResult>>

\* ---- ParseChapters
pch_loop ==
    /\ pc = "pch_loop"
    /\ IF bIdx > Len(pendingChapters)
       THEN /\ pwPage' = bPage
            /\ pc' = "pw_finally"
            /\ UNCHANGED <<stack, rpPage>>
       ELSE IF getPageStats(pagePool, bPage).shouldRecycle
       THEN /\ rpPage' = bPage
            /\ Call("rp_start", "pch_recycle_ret")
            /\ UNCHANGED pwPage
       ELSE /\ pc' = "pch_mark"
            /\ UNCHANGED <<stack, rpPage, pwPage>>
    /\ UNCHANGED <<poolVars, rv, exc, gpVars, victim, cbIdx, fpVars,
                   storeVars, pendingNovels, pendingChapters, qNovels,
                   qChapters, rowsBefore, pwInit, pwErr, bIdx, bPage, dResult>>

pch_recycle_ret ==
    /\ pc = "pch_recycle_ret"
    /\ IF exc # NoError
       THEN pc' = "pch_catch" /\ UNCHANGED bPage
       ELSE pc' = "pch_mark" /\ bPage' = rv
    /\ rv' = 0
    /\ exc' = NoError
    /\ UNCHANGED <<poolVars, stack, localVars, fpVars, storeVars,
                   pendingNovels, pendingChapters, qNovels, qChapters, rowsBefore,
                   pwInit, pwPage, pwErr, bIdx, dResult>>

\* updateChapterStatus(PROCESSING, chapter.id); discoverChapter(chapter,
\* currentPage) up to its call fetchPage(chapterObj.url, page)
pch_mark ==
    /\ pc = "pch_mark"
    /\ chapters' = updateChapterStatus(chapters, STATUS_PROCESSING,
                                       pendingChapters[bIdx])
    /\ fpUrl' = chapters[pendingChapters[bIdx]].url
    /\ fpPage' = bPage
    /\ fpRetries' = DEFAULT_RETRIES
    /\ Call("fp_start", "dc_fetch_ret")
    /\ UNCHANGED <<poolVars, rv, exc, localVars, fpCurrent, fpRecycled,
                   fpAttempt, fpLastError, fpResp, fpErr, fpTrace,
                   fpFailures, novels, runVars>>

\* ---- discoverChapter, after fetchPage
\* a fetchPage error is caught: the result is {success: false} with no page
dc_fetch_ret ==
    /\ pc = "dc_fetch_ret"
    /\ IF exc # NoError
       THEN /\ dResult' = [success |-> FALSE, page |-> 0, links |-> <<>>]
            /\ pc' = "pch_result"
            /\ rv' = 0
       ELSE /\ pc' = "dc_extract"
            /\ UNCHANGED <<dResult, rv>>
    /\ exc' = NoError
    /\ UNCHANGED <<poolVars, stack, localVars, fpVars, storeVars,
                   pendingNovels, pendingChapters, qNovels, qChapters, rowsBefore, pwInit,
                   pwPage, pwErr, bIdx, bPage>>

\* what the extractor and the fallback selectors find in the page
Extractions == {"readability", "fallback", "nothing"}

\* storeCustomFonts; updatedPage.content() (rejects on a closed page);
\* parseWithReadability, else extractContentFallback: success is
\* !!fallbackContent; both results carry page: updatedPage
dc_extract ==
    /\ pc = "dc_extract"
    /\ IF rv.page \notin open
       THEN dResult' = [success |-> FALSE, page |-> 0, links |-> <<>>]
       ELSE \E x \in site.extractions :
               dResult' = [success |-> x # "nothing", page |-> rv.page,
                           links |-> <<>>]
    /\ rv' = 0
    /\ pc' = "pch_result"
    /\ UNCHANGED <<poolVars, stack, exc, localVars, fpVars, storeVars,
                   pendingNovels, pendingChapters, qNovels, qChapters, rowsBefore, pwInit,
                   pwPage, pwErr, bIdx, bPage>>

\* if (result.page) currentPage = result.page; success: updateChapter(..,
\* SUCCESS); otherwise updateChapterStatus(ERROR)
pch_result ==
    /\ pc = "pch_result"
    /\ bPage' = IF dResult.page # 0 THEN dResult.page ELSE bPage
    /\ chapters' =
         IF dResult.success
         THEN updateChapter(chapters, pendingChapters[bIdx], "text",
                            STATUS_SUCCESS)
         ELSE updateChapterStatus(chapters, STATUS_ERROR,
                                  pendingChapters[bIdx])
    /\ dResult' = NoResult
    /\ ResetFetch
    /\ pc' = "pch_delay"
    /\ UNCHANGED <<poolVars, stack, rv, exc, localVars, novels,
                   pendingNovels, pendingChapters, qNovels, qChapters, rowsBefore, pwInit,
                   pwPage, pwErr, bIdx>>

\* await delay(1.5-3 s); i++
pch_delay ==
    /\ pc = "pch_delay"
    /\ bIdx' = bIdx + 1
    /\ pc' = "pch_loop"
    /\ UNCHANGED <<poolVars, stack, rv, exc, localVars, fpVars, storeVars,
                   pendingNovels, pendingChapters, qNovels, qChapters, rowsBefore, pwInit,
                   pwPage, pwErr, bPage, dResult>>

\* catch (error) { updateChapterStatus(ERROR); await delay(3000) }
pch_catch ==
    /\ pc = "pch_catch"
    /\ chapters' = updateChapterStatus(chapters, STATUS_ERROR,
                                       pendingChapters[bIdx])
    /\ pc' = "pch_catch_wait"
    /\ UNCHANGED <<poolVars, stack, rv, exc, localVars, fpVars, novels,
                   runVars>>

pch_catch_wait ==
    /\ pc = "pch_catch_wait"
    /\ bIdx' = bIdx + 1
    /\ pc' = "pch_loop"
    /\ UNCHANGED <<poolVars, stack, rv, exc, localVars, fpVars, storeVars,
                   pendingNovels, pendingChapters, qNovels, qChapters, rowsBefore, pwInit,
                   pwPage, pwErr, bPage, dResult>>

\* ---- ParserWrapper: finally { if (browserInitialized) await closeBrowser() }
pw_finally ==
    /\ pc = "pw_finally"
    /\ IF pwInit
       THEN Call("cb_start", "pw_end")
       ELSE pc' = "pw_done" /\ UNCHANGED stack
    /\ UNCHANGED <<poolVars, rv, exc, localVars, fpVars, storeVars, runVars>>

\* the promise of ParserWrapper settles: rejected with pwErr, if any
pw_end ==
    /\ pc = "pw_end"
    /\ pc' = "pw_done"
    /\ rv' = 0
    /\ exc' = NoError
    /\ UNCHANGED <<poolVars, stack, localVars, fpVars, storeVars, runVars>>

DisconnectedR ==
    /\ Disconnected(PoolSuspended \cup FetchSuspended \cup RunSuspended)
    /\ UNCHANGED nonPoolVars

\* SIGINT or SIGTERM while the run is suspended: the handler registered
\* first, the one of db_init, runs closeDatabase() and process.exit(0); the
\* handlers of the scheduler and of the server do not close the browser
\* either.  Nothing of the run (no finally block) executes after the exit and
\* its locals are gone; the store, the browser and the pool are left as they
\* were at the exit.
sig_exit ==
    /\ pc \in PoolSuspended \cup FetchSuspended \cup RunSuspended
    /\ pc' = "exited"
    /\ stack' = <<>> /\ rv' = 0 /\ exc' = NoError
    /\ gpForceNew' = FALSE /\ gpBrowser' = 0 /\ gpPage' = 0 /\ victim' = 0
    /\ rpPage' = 0 /\ cbIdx' = 0
    /\ ResetFetch
    /\ pendingNovels' = <<>> /\ pendingChapters' = <<>>
    /\ qNovels' = <<>> /\ qChapters' = <<>> /\ rowsBefore' = 0
    /\ pwInit' = FALSE /\ pwPage' = 0 /\ pwErr' = NoError
    /\ bIdx' = 0 /\ bPage' = 0 /\ dResult' = NoResult
    /\ UNCHANGED <<poolVars, driverVars, storeVars, site, decVars,
                   schedVars, waitVars>>

\* ------------------------------------------------ one run of ParserWrapper
\* the store before the run: novels waiting, failed or left in PROCESSING by
\* an interrupted run, and no chapter, one chapter row of an earlier run
\* (waiting or done) or two waiting ones
InitStore ==
    /\ \E st \in [1..MaxNovels ->
                    {STATUS_PENDING, STATUS_ERROR, STATUS_PROCESSING}] :
          novels = [i \in 1..MaxNovels |->
                      [url |-> NovelUrl(i), status |-> st[i],
                       total_chapters |-> 0]]
    /\ chapters \in {<<>>} \cup
         {<<[novel_id |-> 1, url |-> ChapterUrl(1), status |-> s,
             content |-> IF s = STATUS_SUCCESS THEN "text" ELSE "null"]>> :
            s \in {STATUS_PENDING, STATUS_SUCCESS}} \cup
         {<<[novel_id |-> 1, url |-> ChapterUrl(1), status |-> STATUS_PENDING,
             content |-> "null"],
            [novel_id |-> 1, url |-> ChapterUrl(2), status |-> STATUS_PENDING,
             content |-> "null"]>>}

\* the sites of a run: one that answers or is down, one behind a challenge
\* and a CAPTCHA, one that blocks the client
Healthy ==
    [NoSite EXCEPT !.statuses = {200}, !.challenges = {FALSE},
                   !.captchas = {"none"}, !.htmlLengths = {5000},
                   !.bodies = {<<"chapter", "one">>},
                   !.linkLists = LinkLists,
                   !.extractions = Extractions]

RunSites ==
    {[Healthy EXCEPT !.statuses = {200, 503}],
     [Healthy EXCEPT !.challenges = {TRUE},
                     !.captchas = {"solved", "unsolved"}],
     [Healthy EXCEPT !.htmlLengths = {4999},
                     !.bodies = {<<"chapter", "one">>, <<"Access", "Denied">>}]}

InitR ==
    /\ InitPool /\ InitCall /\ InitDriver /\ InitFetchVars /\ InitRunVars
    /\ InitStore /\ InitNoDecode
    /\ InitNoSched /\ InitNoWait
    /\ site \in RunSites

NextR ==
    \/ ib_start /\ UNCHANGED nonPoolVars
    \/ ib_launching /\ UNCHANGED nonPoolVars
    \/ gp_start /\ UNCHANGED nonPoolVars
    \/ gp_scan /\ UNCHANGED nonPoolVars
    \/ gp_evict /\ UNCHANGED nonPoolVars
    \/ gp_limit /\ UNCHANGED nonPoolVars
    \/ gp_limit_closing /\ UNCHANGED nonPoolVars
    \/ gp_creating /\ UNCHANGED nonPoolVars
    \/ gp_configuring /\ UNCHANGED nonPoolVars
    \/ rp_start /\ UNCHANGED nonPoolVars
    \/ rp_closing /\ UNCHANGED nonPoolVars
    \/ cb_start /\ UNCHANGED nonPoolVars
    \/ cb_loop /\ UNCHANGED nonPoolVars
    \/ cb_closing /\ UNCHANGED nonPoolVars
    \/ cb_browser_closing /\ UNCHANGED nonPoolVars
    \/ fp_start /\ UNCHANGED nonFetchVars
    \/ fp_loop /\ UNCHANGED nonFetchVars
    \/ fp_goto /\ UNCHANGED nonFetchVars
    \/ fp_challenge /\ UNCHANGED nonFetchVars
    \/ fp_status /\ UNCHANGED nonFetchVars
    \/ fp_settle /\ UNCHANGED nonFetchVars
    \/ fp_content /\ UNCHANGED nonFetchVars
    \/ fp_block_wait /\ UNCHANGED nonFetchVars
    \/ fp_block_ret /\ UNCHANGED nonFetchVars
    \/ fp_catch /\ UNCHANGED nonFetchVars
    \/ fp_backoff /\ UNCHANGED nonFetchVars
    \/ fp_catch_ret /\ UNCHANGED nonFetchVars
    \/ pw_start /\ UNCHANGED nonRunVars
    \/ pw_n_ib /\ UNCHANGED nonRunVars
    \/ pw_n_gp /\ UNCHANGED nonRunVars
    \/ pn_loop /\ UNCHANGED nonRunVars
    \/ pn_recycle_ret /\ UNCHANGED nonRunVars
    \/ pn_mark /\ UNCHANGED nonRunVars
    \/ dn_fetch_ret /\ UNCHANGED nonRunVars
    \/ dn_extract /\ UNCHANGED nonRunVars
    \/ pn_result /\ UNCHANGED nonRunVars
    \/ pn_delay /\ UNCHANGED nonRunVars
    \/ pn_catch /\ UNCHANGED nonRunVars
    \/ pn_catch_wait /\ UNCHANGED nonRunVars
    \/ pn_catch_ret /\ UNCHANGED nonRunVars
    \/ pw_chapters /\ UNCHANGED nonRunVars
    \/ pw_c_ib /\ UNCHANGED nonRunVars
    \/ pw_c_gp /\ UNCHANGED nonRunVars
    \/ pch_loop /\ UNCHANGED nonRunVars
    \/ pch_recycle_ret /\ UNCHANGED nonRunVars
    \/ pch_mark /\ UNCHANGED nonRunVars
    \/ dc_fetch_ret /\ UNCHANGED nonRunVars
    \/ dc_extract /\ UNCHANGED nonRunVars
    \/ pch_result /\ UNCHANGED nonRunVars
    \/ pch_delay /\ UNCHANGED nonRunVars
    \/ pch_catch /\ UNCHANGED nonRunVars
    \/ pch_catch_wait /\ UNCHANGED nonRunVars
    \/ pw_finally /\ UNCHANGED nonRunVars
    \/ pw_end /\ UNCHANGED nonRunVars
    \/ DisconnectedR
    \/ sig_exit

\* a run never finds a Session at its ceiling (getPage is its only caller
\* that counts a use, and it runs at most twice), so the steps behind that
\* test, gp_evict_closing and fp_pre_ret, are not steps of a run
SpecRun == InitR /\ [][NextR]_vars

\* ===================================== scripts/cleaners: the glyph decoder
\* A character is its index in FULL_ALPHABET (a..z are 1..26, A..Z are
\* 27..52); a character that is no Latin letter has a larger code.
Letters == 1..TOTAL_LETTERS

\* a test that knows the lower-case letters only
IsLetter_lowercase(c) == c \in 1..26

\* /[A-Za-z]/.test(char)
IsLetter(c) == c \in Letters

\* Math.round of a coordinate given in tenths of a font unit
Round(tenths) == (tenths + 5) \div 10

\* The fingerprint catalog (public/fonts/mapping.js): the canonical outline
\* of each letter, filed either under "WxH" or under "AxWxH".
Canonical(k) ==
    [width |-> 300 + 7 * k, height |-> IF k <= 26 THEN 480 ELSE 700,
     advance |-> 600]

CatalogKey(k) ==
    IF k % 2 = 0
    THEN <<Canonical(k).width, Canonical(k).height>>
    ELSE <<Canonical(k).advance, Canonical(k).width, Canonical(k).height>>

Catalog ==
    [key \in {CatalogKey(k) : k \in Letters} |->
        CHOOSE k \in Letters : CatalogKey(k) = key]

\* fontMapping[key]: the letter, or 0 for undefined
fontMapping(key) == IF key \in DOMAIN Catalog THEN Catalog[key] ELSE 0

\* fontMapping[key1] || fontMapping[key2] for one glyph of the font
realLetter(glyph) ==
    LET width == Round(glyph.xMax - glyph.xMin)
        height == Round(glyph.yMax - glyph.yMin)
        advWidth == Round(glyph.advanceWidth)
        first == fontMapping(<<width, height>>)
    IN IF first # 0 THEN first
       ELSE fontMapping(<<advWidth, width, height>>)

Range(f) == {f[x] : x \in DOMAIN f}

Last(S) == IF S = {} THEN 0 ELSE CHOOSE x \in S : \A y \in S : y <= x

\* the map built from the catalog hits
CatalogHits(cmap) ==
    LET hit == {c \in DOMAIN cmap : realLetter(cmap[c]) # 0}
    IN [c \in hit |-> realLetter(cmap[c])]

\* a size test that is off by one
GapSize_full(decoder) == Cardinality(DOMAIN decoder) = TOTAL_LETTERS

\* if (mapKeys.length === TOTAL_LETTERS - 1 && mapValues.length === ...)
GapSize(decoder) == Cardinality(DOMAIN decoder) = TOTAL_LETTERS - 1

\* the gap-completion step: missingKey and missingValue are the last letters
\* of ALL_LETTERS absent from the keys and from the values
CompleteGap(decoder) ==
    LET missingKey == Last(Letters \ DOMAIN decoder)
        missingValue == Last(Letters \ Range(decoder))
    IN IF GapSize(decoder) /\ missingKey # 0 /\ missingValue # 0
       THEN [c \in DOMAIN decoder \cup {missingKey} |->
                IF c = missingKey THEN missingValue ELSE decoder[c]]
       ELSE decoder

\* fs.readFileSync(fontPath) and opentype.parse(buffer) raise on a file that
\* is missing or is no font; nothing in solveFont catches
FontError(font) ==
    IF font.file = "missing"
    THEN <<"ENOENT: no such file or directory">>
    ELSE IF font.file = "garbage"
    THEN <<"Unsupported OpenType signature">>
    ELSE NoError

solveFont(font) == CompleteGap(CatalogHits(font.cmap))

\* a loop that looks a character up in the map before it tests for a letter
RECURSIVE DecodeLoop_lookupFirst(_, _)
DecodeLoop_lookupFirst(text, map) ==
    IF text = <<>> THEN [text |-> <<>>, any |-> FALSE]
    ELSE LET rest == DecodeLoop_lookupFirst(Tail(text), map)
             char == Head(text)
         IN IF char \in DOMAIN map
            THEN [text |-> <<map[char]>> \o rest.text, any |-> TRUE]
            ELSE IF ~IsLetter(char)
            THEN [text |-> <<char>> \o rest.text, any |-> rest.any]
            ELSE rest

\* the loop of decodeObfuscatedText over encodedText
RECURSIVE DecodeLoop(_, _)
DecodeLoop(text, map) ==
    IF text = <<>> THEN [text |-> <<>>, any |-> FALSE]
    ELSE LET rest == DecodeLoop(Tail(text), map)
             char == Head(text)
         IN IF ~IsLetter(char)
            THEN [text |-> <<char>> \o rest.text, any |-> rest.any]
            ELSE IF char \in DOMAIN map
            THEN [text |-> <<map[char]>> \o rest.text, any |-> TRUE]
            ELSE rest

\* if (!encodedText || !mapIsValid) return {text: encodedText, success: false}
KeepUnmapped(text, mapIsValid) == text = <<>> \/ ~mapIsValid

decodeWithMap(encodedText, glyphToCharMap) ==
    LET mapIsValid == DOMAIN glyphToCharMap # {}
        decoded == DecodeLoop(encodedText, glyphToCharMap)
    IN IF KeepUnmapped(encodedText, mapIsValid)
       THEN [text |-> encodedText, success |-> FALSE]
       ELSE [text |-> decoded.text, success |-> mapIsValid /\ decoded.any]

\* ---- fonts and texts of a call
\* the outline of letter k as a compressed font stores it: coordinates in
\* tenths of a unit, shifted from the canonical ones by less than half a unit
Glyph(k, drift) ==
    [xMin |-> 200, xMax |-> 200 + 10 * Canonical(k).width + drift,
     yMin |-> 0 - 100, yMax |-> 10 * Canonical(k).height - 100 - drift,
     advanceWidth |-> 10 * Canonical(k).advance + drift]

\* an outline the catalog does not know (an empty glyph: no bounding box)
UnknownGlyph ==
    [xMin |-> 0, xMax |-> 0, yMin |-> 0, yMax |-> 0, advanceWidth |-> 2500]

\* the characters of the small fonts and of the texts: a, b, A and a space
TextChars == {1, 2, 27, TOTAL_LETTERS + 1}

\* a font whose table covers the whole alphabet: code c shows the letter
\* `shift` places further on, except for the codes in `holes`, which show an
\* unknown outline, and the codes in `same`, which all show the letter `a`
Rotation(shift, holes, same, drift) ==
    [c \in Letters |->
        IF c \in holes THEN UnknownGlyph
        ELSE IF c \in same THEN Glyph(1, drift)
        ELSE Glyph(((c + shift - 1) % TOTAL_LETTERS) + 1, drift)]

\* the font files: one that is missing, one that is no font, fonts over a
\* few characters showing a, A or an unknown outline, and rotations
Fonts ==
    {[file |-> f, cmap |-> <<>>] : f \in {"missing", "garbage"}}
      \cup {[file |-> "font", cmap |-> m] :
               m \in UNION {[S -> {Glyph(1, 4), Glyph(27, 0), UnknownGlyph}] :
                              S \in SUBSET TextChars}}
      \cup {[file |-> "font", cmap |-> Rotation(s, h, d, r)] :
               s \in 0..MaxShift,
               h \in {{}, {2}, {TOTAL_LETTERS}, {2, 27}},
               d \in {{}, {1, 3}}, r \in {0 - 4, 0, 4}}

Texts == UNION {[1..n -> TextChars] : n \in 0..MaxLen}

\* ---- decodeObfuscatedText(encodedText, fontName)
\* const glyphToCharMap = solveFont(fontName)
dot_solveFont ==
    /\ pc = "idle"
    /\ IF FontError(dFont) # NoError
       THEN /\ exc' = FontError(dFont)
            /\ pc' = "dot_done"
            /\ UNCHANGED dMap
       ELSE /\ dMap' = solveFont(dFont)
            /\ pc' = "dot_map"
            /\ UNCHANGED exc
    /\ UNCHANGED <<poolVars, stack, rv, localVars, dFont, dText>>

\* the rest of decodeObfuscatedText
dot_decode ==
    /\ pc = "dot_map"
    /\ rv' = decodeWithMap(dText, dMap)
    /\ pc' = "dot_done"
    /\ UNCHANGED <<poolVars, stack, exc, localVars, decVars>>

InitD ==
    /\ InitPool /\ InitCall /\ InitDriver /\ InitFetchVars /\ InitRunVars
    /\ InitNoStore
    /\ InitNoSched /\ InitNoWait
    /\ site = NoSite
    /\ dFont \in Fonts
    /\ dText \in Texts
    /\ dMap = <<>>

NextD ==
    \/ dot_solveFont /\ UNCHANGED nonDecodeVars
    \/ dot_decode /\ UNCHANGED nonDecodeVars

SpecDecode == InitD /\ [][NextD]_vars

\* ===================== the schedulers: the unified server, the cron script
\* Every trigger of a scheduler invokes ParserWrapper in the same process.
\* An invocation keeps its locals in its slot of `runs`; all invocations
\* share the module state of browser_init.js and the store.  An invocation
\* is taken from one of its awaits (on the browser, the site, a timer) to
\* the next, and an item of a batch ends in SUCCESS or in ERROR; the steps
\* inside these awaits are those of SpecRun.
Active(r) == runs[r].st # "none"

InProgress == {r \in Runs : Active(r)}

FreeSlot == CHOOSE r \in Runs \ InProgress : \A q \in Runs \ InProgress : r <= q

\* a page object nothing refers to any more can stand for a new one
SchedFreshPages ==
    PageIds \ (PoolPages \cup open \cup {runs[r].page : r \in Runs})

SchedNewPage ==
    CHOOSE p \in SchedFreshPages : \A q \in SchedFreshPages : p <= q

\* getPage(forceNew) as one step: a pooled Session under its ceiling is
\* handed out again with one more use; otherwise the Sessions at their
\* ceiling are closed, the oldest one too when the pool is full, and a new
\* page is registered with one use
getPage(pool, opn, forceNew, fresh) ==
    LET i == FirstIndex({k \in 1..Len(pool) : UnderLimit(pool[k])})
        kept == SelectSeq(pool, LAMBDA e : UnderLimit(e))
        room == IF PoolFull(kept) THEN PoolDelete(kept, OldestPage(kept))
                ELSE kept
        closed == {pool[k].page : k \in 1..Len(pool)}
                      \ {room[k].page : k \in 1..Len(room)}
    IN IF ~forceNew /\ i # 0
       THEN [pool |-> [pool EXCEPT ![i].uses = @ + 1], open |-> opn,
             page |-> pool[i].page]
       ELSE [pool |-> Append(room, [page |-> fresh, uses |-> 1]),
             open |-> (opn \ closed) \cup {fresh}, page |-> fresh]

\* recyclePage(page): pagePool.delete(page); page.close(); getPage(true)
recyclePage(pool, opn, page, fresh) ==
    getPage(PoolDelete(pool, page), opn \ {page}, TRUE, fresh)

\* initBrowser(): the registered process, or a new one
initBrowser(browser) == IF browser # 0 THEN browser ELSE 1

\* the rows a discovered novel page lists
SchedLinkLists == {<<>>, <<ChapterUrl(1)>>}

\* ---- ParserWrapper, invocation r
\* the PENDING query of a batch; before the first batch that has items:
\* await initBrowser(); page = await getPage(); browserInitialized = true
pwr_query(r) ==
    /\ runs[r].st = "query"
    /\ LET items == IF runs[r].batch = "novels"
                    THEN getNovelsByStatus(novels, STATUS_PENDING)
                    ELSE getChaptersByStatus(chapters, STATUS_PENDING)
       IN IF items = <<>>
          THEN /\ runs' = IF runs[r].batch = "novels"
                          THEN [runs EXCEPT ![r].batch = "chapters"]
                          ELSE [runs EXCEPT ![r].st = "finally"]
               /\ UNCHANGED poolVars
          ELSE IF runs[r].init
          THEN /\ runs' = [runs EXCEPT ![r].items = items, ![r].i = 1,
                                       ![r].st = "loop"]
               /\ UNCHANGED poolVars
          ELSE \E ok \in BOOLEAN :
                 IF ok /\ SchedFreshPages # {}
                 THEN LET g == getPage(pagePool, open, FALSE, SchedNewPage)
                      IN /\ browserInstance' = initBrowser(browserInstance)
                         /\ pagePool' = g.pool
                         /\ open' = g.open
                         /\ runs' = [runs EXCEPT ![r].items = items,
                                                 ![r].i = 1,
                                                 ![r].page = g.page,
                                                 ![r].init = TRUE,
                                                 ![r].st = "loop"]
                         /\ UNCHANGED maxPageUses
                 ELSE /\ runs' = [runs EXCEPT ![r].threw = TRUE,
                                              ![r].st = "finally"]
                      /\ UNCHANGED poolVars
    /\ UNCHANGED <<storeVars, parserRunning, ticks, startup>>

\* the head of the loop of ParseNovels / ParseChapters: the end of the
\* batch, or the recycle of a Session the pool asks to replace, the
\* PROCESSING mark and the call of the discovery
pwr_loop(r) ==
    /\ runs[r].st = "loop"
    /\ IF runs[r].i > Len(runs[r].items)
       THEN /\ runs' = IF runs[r].batch = "novels"
                       THEN [runs EXCEPT ![r].batch = "chapters",
                                         ![r].items = <<>>, ![r].i = 0,
                                         ![r].st = "query"]
                       ELSE [runs EXCEPT ![r].st = "finally"]
            /\ UNCHANGED <<poolVars, storeVars>>
       ELSE LET id == runs[r].items[runs[r].i]
                due == getPageStats(pagePool, runs[r].page).shouldRecycle
                g == recyclePage(pagePool, open, runs[r].page, SchedNewPage)
            IN /\ SchedFreshPages # {}
               /\ IF due
                  THEN /\ browserInstance' = initBrowser(browserInstance)
                       /\ pagePool' = g.pool
                       /\ open' = g.open
                  ELSE UNCHANGED <<browserInstance, pagePool, open>>
               /\ runs' = [runs EXCEPT
                             ![r].page = IF due THEN g.page ELSE @,
                             ![r].marked = @ \cup {<<runs[r].batch, id>>},
                             ![r].st = "fetch"]
               /\ IF runs[r].batch = "novels"
                  THEN /\ novels' = updateNovelStatus(novels,
                                                      STATUS_PROCESSING, id)
                       /\ UNCHANGED chapters
                  ELSE /\ chapters' = updateChapterStatus(chapters,
                                                          STATUS_PROCESSING, id)
                       /\ UNCHANGED novels
               /\ UNCHANGED maxPageUses
    /\ UNCHANGED <<parserRunning, ticks, startup>>

\* the discovery returns: on a Session that is still open the item can end
\* in SUCCESS (a novel with the rows of its chapters), otherwise in ERROR
pwr_result(r) ==
    /\ runs[r].st = "fetch"
    /\ LET id == runs[r].items[runs[r].i]
       IN \E success \in BOOLEAN, links \in SchedLinkLists :
            IF runs[r].batch = "novels"
            THEN IF success /\ runs[r].page \in open
                 THEN /\ novels' = updateNovel(novels, id, Len(links),
                                               STATUS_SUCCESS)
                      /\ chapters' = insertChapters(chapters, id, links)
                 ELSE /\ novels' = updateNovelStatus(novels, STATUS_ERROR, id)
                      /\ UNCHANGED chapters
            ELSE /\ chapters' =
                      IF success /\ runs[r].page \in open
                      THEN updateChapter(chapters, id, "text", STATUS_SUCCESS)
                      ELSE updateChapterStatus(chapters, STATUS_ERROR, id)
                 /\ UNCHANGED novels
    /\ runs' = [runs EXCEPT ![r].i = @ + 1, ![r].st = "loop"]
    /\ UNCHANGED <<poolVars, parserRunning, ticks, startup>>

\* finally { if (browserInitialized) await closeBrowser() }: the pages of
\* the pool are closed, the pool is cleared and the process is closed
pwr_finally(r) ==
    /\ runs[r].st = "finally"
    /\ IF runs[r].init /\ browserInstance # 0
       THEN /\ browserInstance' = 0
            /\ pagePool' = <<>>
            /\ open' = {}
            /\ UNCHANGED maxPageUses
       ELSE UNCHANGED poolVars
    /\ runs' = [runs EXCEPT ![r].st = "settled"]
    /\ UNCHANGED <<storeVars, parserRunning, ticks, startup>>

\* ---- the unified server
\* a runParser without the parserRunning test
runParser_unguarded(trigger) ==
    IF InProgress = Runs
    THEN UNCHANGED <<parserRunning, runs>>
    ELSE /\ parserRunning' = TRUE
         /\ runs' = [runs EXCEPT ![FreeSlot] =
                        [NoRun EXCEPT !.st = "query", !.by = trigger]]

\* if (parserRunning) return; parserRunning = true; .. await ParserWrapper()
runParser(trigger) ==
    IF parserRunning \/ InProgress = Runs
    THEN UNCHANGED <<parserRunning, runs>>
    ELSE /\ parserRunning' = TRUE
         /\ runs' = [runs EXCEPT ![FreeSlot] =
                        [NoRun EXCEPT !.st = "query", !.by = trigger]]

\* cron.schedule(CRON_SCHEDULE, async () => { await runParser() })
sv_cron ==
    /\ ticks < MaxTicks
    /\ ticks' = ticks + 1
    /\ runParser(ticks + 1)
    /\ UNCHANGED <<poolVars, storeVars, startup>>

\* if (RUN_ON_START) setTimeout(() => { runParser() }, 5000)
sv_timeout ==
    /\ startup
    /\ startup' = FALSE
    /\ runParser(0)
    /\ UNCHANGED <<poolVars, storeVars, ticks>>

\* runParser after its await: catch { log } finally { parserRunning = false }
sv_settled(r) ==
    /\ runs[r].st = "settled"
    /\ parserRunning' = FALSE
    /\ runs' = [runs EXCEPT ![r] = NoRun]
    /\ UNCHANGED <<poolVars, storeVars, ticks, startup>>

\* ---- the cron script
\* cron.schedule(.., async () => { try { await ParserWrapper() } catch .. })
cr_cron ==
    /\ ticks < MaxTicks
    /\ InProgress # Runs
    /\ ticks' = ticks + 1
    /\ runs' = [runs EXCEPT ![FreeSlot] =
                   [NoRun EXCEPT !.st = "query", !.by = ticks + 1]]
    /\ UNCHANGED <<poolVars, storeVars, parserRunning, startup>>

\* if (process.env.RUN_ON_START === 'true') ParserWrapper().then(..).catch(..)
cr_start ==
    /\ startup
    /\ InProgress # Runs
    /\ startup' = FALSE
    /\ runs' = [runs EXCEPT ![FreeSlot] = [NoRun EXCEPT !.st = "query"]]
    /\ UNCHANGED <<poolVars, storeVars, parserRunning, ticks>>

\* the promise of the invocation settles; its handlers only log
cr_settled(r) ==
    /\ runs[r].st = "settled"
    /\ runs' = [runs EXCEPT ![r] = NoRun]
    /\ UNCHANGED <<poolVars, storeVars, parserRunning, ticks, startup>>

nonSchedVars ==
    <<callVars, localVars, driverVars, fpVars, runVars, site, decVars,
      waitVars>>

\* a process that has just started, with or without RUN_ON_START
InitS ==
    /\ InitPool /\ InitCall /\ InitDriver /\ InitFetchVars /\ InitRunVars
    /\ InitStore /\ InitNoDecode /\ InitNoWait
    /\ site = NoSite
    /\ parserRunning = FALSE
    /\ runs = [r \in Runs |-> NoRun]
    /\ ticks = 0
    /\ startup \in BOOLEAN

NextServer ==
    \/ sv_cron /\ UNCHANGED nonSchedVars
    \/ sv_timeout /\ UNCHANGED nonSchedVars
    \/ \E r \in Runs : pwr_query(r) /\ UNCHANGED nonSchedVars
    \/ \E r \in Runs : pwr_loop(r) /\ UNCHANGED nonSchedVars
    \/ \E r \in Runs : pwr_result(r) /\ UNCHANGED nonSchedVars
    \/ \E r \in Runs : pwr_finally(r) /\ UNCHANGED nonSchedVars
    \/ \E r \in Runs : sv_settled(r) /\ UNCHANGED nonSchedVars

SpecServer == InitS /\ [][NextServer]_vars

NextCron ==
    \/ cr_cron /\ UNCHANGED nonSchedVars
    \/ cr_start /\ UNCHANGED nonSchedVars
    \/ \E r \in Runs : pwr_query(r) /\ UNCHANGED nonSchedVars
    \/ \E r \in Runs : pwr_loop(r) /\ UNCHANGED nonSchedVars
    \/ \E r \in Runs : pwr_result(r) /\ UNCHANGED nonSchedVars
    \/ \E r \in Runs : pwr_finally(r) /\ UNCHANGED nonSchedVars
    \/ \E r \in Runs : cr_settled(r) /\ UNCHANGED nonSchedVars

SpecCron == InitS /\ [][NextCron]_vars

\* ================================ fetch_page.js: the waits between attempts
\* Math.random() * span in whole milliseconds: 0 <= value < span
RandomTimes(span) ==
    {0, 1, span \div 4, span \div 2, span - (span \div 4), span - 2, span - 1}

\* Math.pow(2, n)
RECURSIVE pow2(_)
pow2(n) == IF n = 0 THEN 1 ELSE 2 * pow2(n - 1)

\* const blockDelay = (attempt + 1) * 5000 + Math.random() * 5000
blockDelay(attempt, random) == (attempt + 1) * 5000 + random

\* a base that doubles without a ceiling
baseDelay_uncapped(attempt) == 2000 * pow2(attempt)

\* const baseDelay = Math.min(2000 * Math.pow(2, attempt), 10000)
baseDelay(attempt) ==
    IF 2000 * pow2(attempt) < 10000 THEN 2000 * pow2(attempt) ELSE 10000

\* const jitter = Math.random() * 2000; totalDelay = baseDelay + jitter
totalDelay(attempt, jitter) == baseDelay(attempt) + jitter

\* attempt `wAttempt` ends on a page the block heuristic flagged
wt_block ==
    /\ wAttempt < MaxAttempt
    /\ \E random \in RandomTimes(5000) :
          wDelay' = [kind |-> "block", ms |-> blockDelay(wAttempt, random)]
    /\ wAttempt' = wAttempt + 1

\* attempt `wAttempt` ends in the catch block
wt_backoff ==
    /\ wAttempt < MaxAttempt
    /\ \E jitter \in RandomTimes(2000) :
          wDelay' = [kind |-> "backoff", ms |-> totalDelay(wAttempt, jitter)]
    /\ wAttempt' = wAttempt + 1

nonWaitVars ==
    <<poolVars, callVars, localVars, driverVars, fpVars, storeVars, runVars,
      site, decVars, schedVars>>

InitW ==
    /\ InitPool /\ InitCall /\ InitDriver /\ InitFetchVars /\ InitRunVars
    /\ InitNoStore /\ InitNoDecode /\ InitNoSched
    /\ site = NoSite
    /\ wAttempt = 0
    /\ wDelay = NoWait

NextW ==
    \/ wt_block /\ UNCHANGED nonWaitVars
    \/ wt_backoff /\ UNCHANGED nonWaitVars

SpecWait == InitW /\ [][NextW]_vars

\* ================================================================== claims
\* C5: after any sequence of getPage, recyclePage, closeBrowser and
\* disconnect events issued by one caller, the pool never holds more than
\* MAX_PAGES (3) Sessions, the suspension points inside getPage included.
T_C5_PoolBounded == Len(pagePool) <= MAX_PAGES

\* the pool is full right after a getPage that had to create a Session
W_C5_PoolFullAfterCreate ==
    /\ pc = "drv_ret" /\ exc = NoError
    /\ drvOp.op = "getPage"
    /\ Len(drvPool) = MAX_PAGES
    /\ Len(pagePool) = MAX_PAGES
    /\ ~PoolHas(drvPool, rv)

\* the counters of the registered Sessions lie between 1 and the ceiling
UsesWithinCeiling ==
    \A i \in 1..Len(pagePool) :
        pagePool[i].uses >= 1 /\ pagePool[i].uses <= maxPageUses

\* a step registers a Session with counter 1, or adds 1 to a counter that is
\* strictly below the ceiling, or leaves the counter alone
UsesStep ==
    \A i \in 1..Len(pagePool') :
        LET e == pagePool'[i] IN
        IF PoolHas(pagePool, e.page)
        THEN LET old == pagePool[PoolIndex(pagePool, e.page)].uses IN
             e.uses # old => (old < maxPageUses /\ e.uses = old + 1)
        ELSE e.uses = 1

\* C6: every registered Session has usesCount <= the ceiling; a Session is
\* registered with usesCount 1, and a counter only changes by +1, from a
\* value strictly below the ceiling.
T_C6_UsesNeverExceedCeiling == [](UsesWithinCeiling) /\ [][UsesStep]_vars

\* acquire has just brought a Session to its ceiling
W_C6_AtCeiling ==
    /\ pc = "drv_ret" /\ exc = NoError
    /\ drvOp.op = "getPage"
    /\ PoolHas(pagePool, rv)
    /\ pagePool[PoolIndex(pagePool, rv)].uses = maxPageUses

\* getPage(true) has returned, and it was called on a pool of MAX_PAGES
\* Sessions that were all below the ceiling
ForcedOnFullPool ==
    /\ pc = "drv_ret" /\ exc = NoError
    /\ drvOp.op = "getPage" /\ drvOp.forceNew
    /\ Len(drvPool) = MAX_PAGES
    /\ \A i \in 1..Len(drvPool) : drvPool[i].uses < maxPageUses

\* C7: getPage(true) on a pool of 3 Sessions that are all below the ceiling
\* evicts exactly the Session registered first, keeps the other two with
\* their counters, and registers the new Session last.
T_C7_EvictsOldestOnly ==
    ForcedOnFullPool =>
        /\ ~PoolHas(drvPool, rv)
        /\ pagePool = Tail(drvPool) \o <<[page |-> rv, uses |-> 1]>>

\* the forced acquire happened with counters that differ from one another
W_C7_ForcedOnFullPool ==
    /\ ForcedOnFullPool
    /\ drvPool[1].uses > 1
    /\ drvPool[2].uses = 1

\* ---------------------------------------------------- fetchPage, observed
Navigations == {i \in 1..Len(fpTrace) : fpTrace[i].ev = "goto"}

FetchEnded == pc = "fetch_done"

ArgumentsValid == fpUrl # "" /\ fpPage # 0

IsExhaustedError(m) ==
    /\ Len(m) >= Len(ExhaustedPrefix(fpUrl, fpRetries))
    /\ SubSeq(m, 1, Len(ExhaustedPrefix(fpUrl, fpRetries)))
         = ExhaustedPrefix(fpUrl, fpRetries)

\* C1: for every retries >= 1 and every sequence of navigation outcomes a
\* fetchPage call performs at most `retries` navigations and ends either by
\* returning {html, page, recycled} or by raising the exhausted-retries
\* error.  The code has a third ending: the error of a failed Session
\* replacement (recyclePage before the loop and inside the catch block).
CE_C1_ReturnsOrExhausted ==
    /\ Cardinality(Navigations) <= fpRetries
    /\ (FetchEnded /\ ArgumentsValid) => (exc = NoError \/ IsExhaustedError(exc))

\* C2: a 404 response ends the call at once: nothing (no backoff wait, no
\* recycle, no navigation) is done after the navigation that got the 404.
\* The code throws the 404 error inside the try block, so its own catch
\* retries it like any other failure.
CE_C2_NotFoundStopsTheCall ==
    \A i \in 1..Len(fpTrace) :
        fpTrace[i] = Event("goto", 404) => i = Len(fpTrace)

\* the call made `retries` navigations and each got status s
AllNavigationsGot(s) ==
    /\ Cardinality(Navigations) = fpRetries
    /\ \A i \in Navigations : fpTrace[i].res = s

\* C8: when the attempts of a call are used up, the raised error is the
\* exhausted-retries error and its message contains the message of the last
\* failed attempt; `retries` navigations that all got the same 5xx status s
\* give a message that contains 'Server error (s)'.
T_C8_ExhaustedCarriesLastFailure ==
    (FetchEnded /\ ArgumentsValid /\ fpAttempt = fpRetries) =>
        /\ IsExhaustedError(exc)
        /\ fpFailures # <<>>
        /\ Contains(exc, fpFailures[Len(fpFailures)])
        /\ \A s \in {500, 503} :
              AllNavigationsGot(s) => Contains(exc, ServerError(s))

\* three failed attempts, the last one a 503 and the first one another
\* failure: the message must carry the last, not the first
W_C8_ExhaustedAfterServerErrors ==
    /\ FetchEnded /\ fpRetries = 3 /\ fpAttempt = 3
    /\ Len(fpFailures) = 3
    /\ fpFailures[1] # fpFailures[3]
    /\ fpFailures[3] = ServerError(503)

\* the scenario of the claim: retries = 3 and three 503 responses
W_C8_Three503 == FetchEnded /\ fpRetries = 3 /\ AllNavigationsGot(503)

\* ------------------------------------------------------- a run, observed
\* the rows a query returned were PENDING when it ran
SelectedWerePending ==
    /\ \A k \in 1..Len(pendingNovels) :
          qNovels[pendingNovels[k]] = STATUS_PENDING
    /\ \A k \in 1..Len(pendingChapters) :
          qChapters[pendingChapters[k]] = STATUS_PENDING

\* a step changes a row only if the row was PENDING at the run's query, sets
\* PROCESSING only on a PENDING row, and adds rows only as PENDING
WritesOnlySelected ==
    /\ Len(novels') = Len(novels)
    /\ \A i \in 1..Len(novels) :
          novels'[i] # novels[i] =>
             /\ qNovels # <<>>
             /\ qNovels[i] = STATUS_PENDING
             /\ novels'[i].status = STATUS_PROCESSING
                   => novels[i].status = STATUS_PENDING
    /\ Len(chapters') >= Len(chapters)
    /\ \A i \in 1..Len(chapters) :
          chapters'[i] # chapters[i] =>
             /\ i <= Len(qChapters)
             /\ qChapters[i] = STATUS_PENDING
             /\ chapters'[i].status = STATUS_PROCESSING
                   => chapters[i].status = STATUS_PENDING
    /\ \A i \in (Len(chapters) + 1)..Len(chapters') :
          chapters'[i].status = STATUS_PENDING

\* C3: a run writes PROCESSING only on entities that were PENDING in its
\* query: a row that was SUCCESS, ERROR or PROCESSING at the query (for a
\* chapter also: before the chapter query ran) is never written by the run,
\* and no row goes from SUCCESS or ERROR (or PROCESSING) to PROCESSING.
T_C3_ProcessingOnlyFromPending ==
    [](SelectedWerePending) /\ [][WritesOnlySelected]_vars

\* a finished run that processed a PENDING novel and a PENDING chapter and
\* had a novel and a chapter in another status in front of it
W_C3_MixedStoreProcessed ==
    /\ pc = "pw_done"
    /\ \E i, j \in 1..Len(novels) :
          /\ qNovels[i] = STATUS_PENDING /\ novels[i].status = STATUS_SUCCESS
          /\ qNovels[j] = STATUS_PROCESSING
    /\ \E i, j \in 1..Len(qChapters) :
          /\ qChapters[i] = STATUS_PENDING
          /\ chapters[i].status = STATUS_SUCCESS
          /\ qChapters[j] = STATUS_SUCCESS

\* C4: an exception while one item is processed sets the item to ERROR and
\* the batch goes on: when a run whose novel batch began has ended, every
\* novel of the batch is SUCCESS or ERROR and the run has not thrown.  In the
\* code the recyclePage call inside the catch block of ParseNovels is not
\* guarded: its error ends the batch and ParserWrapper rethrows it.
CE_C4_BatchNeverAborts ==
    (pc = "pw_done" /\ pwInit /\ pendingNovels # <<>>) =>
        /\ pwErr = NoError
        /\ \A k \in 1..Len(pendingNovels) :
              novels[pendingNovels[k]].status
                 \in {STATUS_SUCCESS, STATUS_ERROR}

\* ------------------------------------------ decodeObfuscatedText, observed
DecodeEnded == pc = "dot_done"

NoCatalogHit == DOMAIN CatalogHits(dFont.cmap) = {}

\* C9: decodeObfuscatedText never throws; with a font file that cannot be
\* read or parsed, or a font none of whose glyphs is in the catalog, it
\* returns {text: input, success: false}.  In the code solveFont reads and
\* parses the file outside any try block, so those errors leave the call.
CE_C9_DecodeNeverThrows ==
    DecodeEnded =>
        /\ exc = NoError
        /\ (FontError(dFont) # NoError \/ NoCatalogHit)
              => rv = [text |-> dText, success |-> FALSE]

\* C10: whenever decodeObfuscatedText reports success = false, the text it
\* returns is the unmodified input.  In the code a non-empty map none of
\* whose keys occurs in the input gives success = false with the letters of
\* the input dropped.
CE_C10_FailureKeepsInput ==
    (DecodeEnded /\ exc = NoError /\ ~rv.success) => rv.text = dText

\* the letters of the input that are keys of the map
Replaced == {i \in 1..Len(dText) : dText[i] \in Letters \cap DOMAIN dMap}

\* the input without its letters that are no keys of the map
Surviving ==
    SelectSeq(dText, LAMBDA c : c \notin Letters \/ c \in DOMAIN dMap)

NoLetters == \A i \in 1..Len(dText) : dText[i] \notin Letters

\* C12: for a string without Latin letters and for any map, empty or not,
\* decodeObfuscatedText returns the input string as text.
T_C12_NoLettersUnchanged ==
    (DecodeEnded /\ exc = NoError /\ NoLetters) => rv.text = dText

\* a text of spaces decoded with a map that has the space among its keys
W_C12_SpacesWithSpaceKey ==
    /\ DecodeEnded /\ exc = NoError
    /\ dText # <<>> /\ NoLetters
    /\ \E i \in 1..Len(dText) : dText[i] \in DOMAIN dMap

\* the catalog resolved 51 source letters to 51 distinct target letters
OneGap ==
    LET hits == CatalogHits(dFont.cmap) IN
    /\ DOMAIN hits \subseteq Letters
    /\ Cardinality(DOMAIN hits) = TOTAL_LETTERS - 1
    /\ Cardinality(Range(hits)) = TOTAL_LETTERS - 1

SolveFontEnded == pc = "dot_map"

\* C13: when the catalog resolves exactly 51 of the 52 letters, to 51
\* distinct letters, solveFont adds the pair (missing source -> missing
\* target): the resolved pairs are kept and the map is a bijection of the
\* alphabet.
T_C13_GapCompletion ==
    (SolveFontEnded /\ OneGap) =>
        LET hits == CatalogHits(dFont.cmap) IN
        /\ DOMAIN dMap = Letters
        /\ Range(dMap) = Letters
        /\ \A c \in DOMAIN hits : dMap[c] = hits[c]
        /\ \A c \in Letters \ DOMAIN hits : {dMap[c]} = Letters \ Range(hits)

\* the gap is not at the end of the alphabet and the added pair is no
\* letter mapped to itself
W_C13_GapInsideAlphabet ==
    /\ SolveFontEnded /\ OneGap
    /\ \E c \in Letters \ DOMAIN CatalogHits(dFont.cmap) :
          c < TOTAL_LETTERS /\ dMap[c] # c

\* --------------------------------------------- the novel batch, observed
\* ParseNovels is about to handle the result of a successful discovery
DiscoverySucceeded == pc = "pn_result" /\ dResult.success

Stored(url) == \E i \in 1..Len(chapters) : chapters[i].url = url

\* the step that handles a successful discovery none of whose links is
\* stored appends one PENDING row without content per link, in link order,
\* and leaves the novel SUCCESS with total_chapters = number of links
InsertsEveryLink ==
    (/\ DiscoverySucceeded
     /\ \A k \in 1..Len(dResult.links) : ~Stored(dResult.links[k])) =>
        LET id == pendingNovels[bIdx]
            links == dResult.links
        IN /\ chapters' = chapters \o
                  [k \in 1..Len(links) |->
                      [novel_id |-> id, url |-> links[k],
                       status |-> STATUS_PENDING, content |-> "null"]]
           /\ novels'[id].status = STATUS_SUCCESS
           /\ novels'[id].total_chapters = Len(links)

\* a novel the run has set to SUCCESS is not written again
SuccessIsFinal ==
    \A i \in 1..Len(novels) :
        novels[i].status = STATUS_SUCCESS => novels'[i] = novels[i]

\* C14: when the discovery of a novel succeeds with N chapter links whose
\* URLs are not stored yet, the run inserts exactly N Chapter rows for the
\* novel, each PENDING with null content, and the novel ends with status
\* SUCCESS and total_chapters = N.
T_C14_DiscoveredChaptersInserted ==
    [][InsertsEveryLink /\ SuccessIsFinal]_vars

\* the second novel was discovered with two links into an empty chapter
\* table
W_C14_TwoLinksInserted ==
    /\ pc = "pn_delay" /\ pendingNovels[bIdx] = 2
    /\ novels[2].status = STATUS_SUCCESS
    /\ novels[2].total_chapters = 2
    /\ Len(chapters) = 2
    /\ \A i \in 1..2 :
          /\ chapters[i].novel_id = 2
          /\ chapters[i].status = STATUS_PENDING
          /\ chapters[i].content = "null"

UrlsUnique ==
    \A i, j \in 1..Len(chapters) :
        chapters[i].url = chapters[j].url => i = j

\* the step that handles a successful discovery keeps every stored row as it
\* is, adds a row for each link that was not stored and for no other, keeps
\* the novel's row, and goes on to the delay that ends the item
DuplicatesIgnored ==
    DiscoverySucceeded =>
        /\ Len(chapters') >= Len(chapters)
        /\ SubSeq(chapters', 1, Len(chapters)) = chapters
        /\ \A k \in 1..Len(dResult.links) :
              \E i \in 1..Len(chapters') : chapters'[i].url = dResult.links[k]
        /\ \A i \in (Len(chapters) + 1)..Len(chapters') :
              /\ ~Stored(chapters'[i].url)
              /\ \E k \in 1..Len(dResult.links) :
                    chapters'[i].url = dResult.links[k]
        /\ novels' = novels
        /\ novels[pendingNovels[bIdx]].status = STATUS_SUCCESS
        /\ pc' = "pn_delay"

\* C15: inserting a discovered link whose URL is already stored is a no-op:
\* no second row with the URL appears, the stored row keeps its status,
\* content and novel_id, the other links of the novel are inserted, and the
\* novel is not turned into an ERROR.
T_C15_DuplicateLinkIsNoOp == [](UrlsUnique) /\ [][DuplicatesIgnored]_vars

\* two links were discovered for the second novel; the first chapter was
\* stored with its content by an earlier run, the other one was inserted
W_C15_OneDuplicateOneNew ==
    /\ pc = "pn_delay" /\ pendingNovels[bIdx] = 2
    /\ novels[2].status = STATUS_SUCCESS
    /\ novels[2].total_chapters = 2
    /\ Len(chapters) = 2
    /\ chapters[1] = [novel_id |-> 1, url |-> ChapterUrl(1),
                      status |-> STATUS_SUCCESS, content |-> "text"]
    /\ chapters[2] = [novel_id |-> 2, url |-> ChapterUrl(2),
                      status |-> STATUS_PENDING, content |-> "null"]

\* ------------------------------------------------- the pool, observed (2)
\* an operation the caller issued has come back
Came(op) == pc = "drv_ret" /\ drvOp.op = op

CreationErrors ==
    {<<"Failed to launch the browser process">>, <<"Failed to create page">>,
     <<"Failed to configure page">>}

\* C16: recyclePage(s) removes s from the pool whether or not closing s
\* succeeds, then returns a newly created Session, different from s and
\* registered with usesCount 1; the only errors it raises are those of
\* creating the replacement.
T_C16_RecycleReplaces ==
    Came("recyclePage") =>
        /\ ~PoolHas(pagePool, drvOp.page)
        /\ drvOp.page \notin open
        /\ exc # NoError => exc \in CreationErrors
        /\ exc = NoError =>
              /\ rv # drvOp.page
              /\ ~PoolHas(drvPool, rv)
              /\ PoolHas(pagePool, rv)
              /\ pagePool[PoolIndex(pagePool, rv)].uses = 1
              /\ rv \in open

\* a registered Session was recycled while other Sessions stayed registered
W_C16_RecycledRegistered ==
    /\ Came("recyclePage") /\ exc = NoError
    /\ PoolHas(drvPool, drvOp.page)
    /\ Len(drvPool) >= 2
    /\ drvPool[1].page # drvOp.page

\* the pool at the call held a Session below the ceiling
ReusableAtCall == \E i \in 1..Len(drvPool) : drvPool[i].uses < maxPageUses

FirstReusable ==
    CHOOSE i \in 1..Len(drvPool) :
        /\ drvPool[i].uses < maxPageUses
        /\ \A j \in 1..(i - 1) : drvPool[j].uses >= maxPageUses

\* getPage(false) on a pool with a Session below the ceiling is in progress
Reusing == drvOp.op = "getPage" /\ ~drvOp.forceNew /\ ReusableAtCall

\* the result of such a call
ReuseReturned ==
    (pc = "drv_ret" /\ Reusing) =>
        /\ exc = NoError
        /\ rv = drvPool[FirstReusable].page
        /\ pagePool = [drvPool EXCEPT ![FirstReusable].uses = @ + 1]

\* no step of such a call opens or closes a page, starts or drops a browser,
\* or changes which Sessions are registered
ReuseTouchesNothing ==
    Reusing =>
        /\ open' = open
        /\ browserInstance' = browserInstance
        /\ [i \in 1..Len(pagePool') |-> pagePool'[i].page]
             = [i \in 1..Len(pagePool) |-> pagePool[i].page]

\* C17: getPage(false) on a pool that holds a Session below the ceiling
\* returns the first such Session in pool order, adds exactly one to its
\* counter, leaves every other counter alone and creates, closes or removes
\* no Session.
T_C17_ReuseFirstBelowCeiling ==
    [](ReuseReturned) /\ [][ReuseTouchesNothing]_vars

\* the Session registered first was at its ceiling, so the one returned is
\* not the first of the pool
W_C17_SkippedExhausted ==
    /\ pc = "drv_ret" /\ Reusing
    /\ Len(drvPool) >= 2
    /\ drvPool[1].uses = maxPageUses
    /\ rv = drvPool[2].page

\* C18: after closeBrowser completes the pool is empty and no automation
\* process is registered.  In the code `browserInstance = null` follows the
\* awaited browserInstance.close() inside the try block: when that close
\* rejects, the catch logs and the handle stays registered.
CE_C18_CloseLeavesNothing ==
    Came("closeBrowser") => (pagePool = <<>> /\ browserInstance = 0)

\* ------------------------------------------------- the caller's Session
\* C19: no caller performs a page operation on a Session after recyclePage
\* or close was called on it: when fetchPage has replaced the Session
\* during the call, the page the discovery reads afterwards is the
\* replacement.  discoverNovel keeps reading the page it was given.
CE_C19_OnlyReplacementUsed ==
    /\ (pc = "dn_extract" /\ fpRecycled) => fpPage = fpCurrent
    /\ (pc = "dc_extract" /\ fpRecycled) => rv.page = fpCurrent

\* C20: when SIGINT or SIGTERM arrives during a run, every live Session and
\* the automation process are closed before the process exits.  None of the
\* signal handlers calls closeBrowser: the process exits with the browser
\* registered and its Sessions open.
CE_C20_ClosedBeforeExit ==
    pc = "exited" => (browserInstance = 0 /\ pagePool = <<>> /\ open = {})

\* ------------------------------------------- fetchPage, attempt by attempt
\* C21: every error fetchPage raises to its caller after its argument checks
\* is the exhausted-retries error: a failure during an attempt or between two
\* attempts is caught inside fetchPage.  The replacement of the Session
\* before the loop and the one inside the catch block are outside every try
\* block, so their error reaches the caller unwrapped.
CE_C21_OnlyExhaustedEscapes ==
    (FetchEnded /\ ArgumentsValid /\ exc # NoError) => IsExhaustedError(exc)

\* ------------------------------------------------ the rows a run leaves
\* a write of this step moves row i of the table to ERROR
BecomesError(table, after, i) ==
    /\ table[i].status # STATUS_ERROR
    /\ after[i].status = STATUS_ERROR

\* C22: when the discovery of an entity fails, the store write that sets its
\* status to ERROR also records the error message on the entity: the row
\* after the write differs from the old row in more than its status.
\* updateNovelStatus and updateChapterStatus write the status (and the
\* timestamp) only, and neither table has a column for a message.
CE_C22_ErrorWriteRecordsMessage ==
    [][/\ \A i \in 1..Len(novels) :
            BecomesError(novels, novels', i) =>
                novels'[i] # [novels[i] EXCEPT !.status = STATUS_ERROR]
       /\ \A i \in 1..Len(chapters) :
            BecomesError(chapters, chapters', i) =>
                chapters'[i] # [chapters[i] EXCEPT !.status = STATUS_ERROR]]_vars

\* --------------------------------------------- fetchPage after a block
\* the block wait of the trace at position b
BlockedAt(b) == fpTrace[b].ev = "blockwait"

\* the recycle that follows the block wait returned a replacement
ReplacedAfter(b) == b < Len(fpTrace) /\ fpTrace[b + 1].ev = "recycle"

NavigationsUpTo(b) == {j \in Navigations : j <= b}

\* nothing was navigated since the block wait at b and a navigation is next
NavigatingAfter(b) ==
    /\ pc = "fp_goto"
    /\ \A j \in (b + 1)..Len(fpTrace) : fpTrace[j].ev # "goto"

BlockThenReplacement ==
    \A b \in 1..Len(fpTrace) :
        BlockedAt(b) =>
            /\ fpTrace[b].res < fpRetries - 1
            /\ Cardinality(NavigationsUpTo(b)) = fpTrace[b].res + 1
            /\ ReplacedAfter(b) =>
                  /\ fpRecycled
                  /\ b + 2 <= Len(fpTrace) => fpTrace[b + 2].ev = "goto"
                  /\ NavigatingAfter(b) => fpAttempt = fpTrace[b].res + 1
                  /\ (FetchEnded /\ exc = NoError) => rv.recycled
            /\ (b < Len(fpTrace) /\ ~ReplacedAfter(b)) =>
                  fpTrace[b + 1] = Event("backoff", fpTrace[b].res)

\* the replacement is a registered, open Session other than the blocked one,
\* which is closed and no longer registered
ReplacementTaken ==
    (pc = "fp_block_ret" /\ exc = NoError) =>
        /\ fpCurrent' = rv
        /\ rv # fpCurrent
        /\ rv \in open /\ PoolHas(pagePool, rv)
        /\ fpCurrent \notin open /\ ~PoolHas(pagePool, fpCurrent)

\* the loop head hands the current Session to the navigation
KeptUntilNavigation == pc = "fp_loop" => fpCurrent' = fpCurrent

\* what the code does after a block wait: it calls recyclePage once; when
\* that call returns a replacement, the next navigation follows at once, runs
\* on the replacement as attempt i + 1, and a later success has recycled =
\* true; when that call fails, the backoff wait of attempt i follows.
AfterBlockWait ==
    [](BlockThenReplacement) /\ [][ReplacementTaken /\ KeptUntilNavigation]_vars

\* blocked on the second attempt of three, replaced, then a success
BlockedThenSuccess ==
    /\ FetchEnded /\ exc = NoError /\ fpRetries = 3
    /\ fpFailures # <<>>
    /\ \E b \in 1..Len(fpTrace) :
          BlockedAt(b) /\ fpTrace[b].res = 1 /\ ReplacedAfter(b)

\* C23: when the block heuristic flags the page of attempt i and attempts
\* remain, fetchPage recycles the Session exactly once before the next
\* navigation, that navigation runs on the replacement, and the blocked
\* attempt consumes exactly one attempt.  The recycle is inside the try
\* block: when the replacement cannot be created the catch takes the error
\* and the next navigation runs on the Session that was just closed.
CE_C23_BlockAlwaysReplaces ==
    \A b \in 1..Len(fpTrace) :
        (BlockedAt(b) /\ NavigatingAfter(b)) =>
            /\ Cardinality({j \in (b + 1)..Len(fpTrace) :
                               fpTrace[j].ev = "recycle"}) = 1
            /\ fpRecycled
            /\ fpAttempt = fpTrace[b].res + 1

\* the call returned {html, page, recycled}
FetchSucceeded == FetchEnded /\ ArgumentsValid /\ exc = NoError

\* C24: a successful fetchPage result never carries HTML that the block
\* heuristic flagged: a flagged page on the last allowed attempt makes the
\* call raise.  In the code the `if (isBlocked)` block does nothing when no
\* attempt remains, and control falls through to the success return.
CE_C24_SuccessIsNeverBlocked ==
    FetchSucceeded => ~isBlocked(rv.html.length, toLowerCase(rv.html.body))

\* ------------------------------------- fetchPage after the second failure
\* the Session was replaced before position k of the trace
RecycledBefore(k) == \E j \in 1..(k - 1) : fpTrace[j].ev = "recycle"

\* C25: with retries >= 3, when the second attempt fails (its backoff wait
\* is at position k, after two navigations) and the Session has not been
\* replaced earlier in the call, it is recycled exactly once and the third
\* navigation follows; when it was replaced earlier (pre-emptively or after
\* a block) the third navigation follows the wait with no further recycle.
T_C25_SecondFailureRecyclesOnce ==
    \A k \in 1..(Len(fpTrace) - 1) :
        fpTrace[k] = Event("backoff", 1) =>
            /\ fpRetries >= 3
            /\ Cardinality(NavigationsUpTo(k)) = 2
            /\ IF RecycledBefore(k)
               THEN fpTrace[k + 1].ev = "goto"
               ELSE /\ fpTrace[k + 1].ev = "recycle"
                    /\ fpRecycled
                    /\ k + 2 <= Len(fpTrace) => fpTrace[k + 2].ev = "goto"

\* two failed attempts, one recycle, and a third navigation that succeeds
W_C25_RecycledBeforeThird ==
    /\ FetchSucceeded /\ rv.recycled
    /\ Len(fpTrace) = 6
    /\ fpTrace[2] = Event("backoff", 0)
    /\ fpTrace[4] = Event("backoff", 1)
    /\ fpTrace[5].ev = "recycle"
    /\ fpTrace[6].ev = "goto"

\* a call that replaced its Session before the loop, then failed twice
SecondFailureAfterPreemptive ==
    /\ FetchEnded /\ Len(fpTrace) >= 6
    /\ fpTrace[1].ev = "recycle"
    /\ fpTrace[5] = Event("backoff", 1)
    /\ fpTrace[6].ev = "goto"

\* ------------------------------------------ fetchPage on a Session due
\* the Session passed to the call in progress was, when the call started,
\* at its ceiling or unknown to the pool
DueAtCall ==
    /\ drvOp.op = "fetchPage" /\ ArgumentsValid
    /\ pc # "fp_start"
    /\ \/ ~PoolHas(drvPool, fpPage)
       \/ drvPool[PoolIndex(drvPool, fpPage)].uses >= maxPageUses

\* C26: fetchPage never navigates on a Session for which getPageStats
\* reports shouldRecycle = true at the start of the call (usesCount at the
\* ceiling, or unknown to the pool): the recycle is the first thing the call
\* does, every navigation runs on another Session, and a successful result
\* has recycled = true and returns another Session.
T_C26_DueSessionNeverNavigated ==
    DueAtCall =>
        /\ fpTrace # <<>> => fpTrace[1].ev = "recycle"
        /\ pc \in FetchSuspended => (fpRecycled /\ fpCurrent # fpPage)
        /\ FetchSucceeded => (rv.recycled /\ rv.page # fpPage)

\* a Session at its ceiling was passed and the call succeeded
W_C26_CeilingSessionReplaced ==
    /\ DueAtCall /\ FetchSucceeded
    /\ PoolHas(drvPool, fpPage)
    /\ Cardinality(Navigations) = 1

\* a Session the pool does not know was passed and the call succeeded
UnknownSessionReplaced ==
    DueAtCall /\ FetchSucceeded /\ ~PoolHas(drvPool, fpPage)

\* -------------------------------------------- fetchPage, content checks
\* C27: an attempt whose page body contains the JS-disabled phrase ('Enable
\* JavaScript and cookies to continue') is rejected as a failure and never
\* returned as a success.  The code lower-cases the body text before it
\* looks for the phrase, which is written with capitals, so the test never
\* matches.
CE_C27_ChallengePageRejected ==
    FetchSucceeded => ~Contains(rv.html.body, JsChallengePhrase)

\* ----------------------------------------------------- fetchPage, CAPTCHA
\* a CAPTCHA element was found and the solver reported it unsolved, threw,
\* or is not installed (the call of the missing method throws)
Unsolved == {"unsolved", "solver throws"}

UnsolvedAt == {c \in 1..Len(fpTrace) : fpTrace[c].ev \in Unsolved}

\* C28: an attempt whose CAPTCHA could not be solved fails with 'CAPTCHA
\* detected but could not be solved' and is not returned as a success: the
\* catch takes that error and either the backoff wait of the same attempt
\* follows or, on the last attempt, the call raises the exhausted-retries
\* error that carries the message.
T_C28_UnsolvedCaptchaFails ==
    \A c \in UnsolvedAt :
        IF c < Len(fpTrace)
        THEN fpTrace[c + 1] = Event("backoff", fpTrace[c].res)
        ELSE /\ pc \in {"fp_catch", "fp_loop", "fetch_done"}
             /\ pc = "fp_catch" => fpErr = CaptchaError
             /\ pc # "fp_catch" => fpLastError = CaptchaError
             /\ FetchEnded =>
                   exc = ExhaustedError(fpUrl, fpRetries, CaptchaError)

\* every one of three attempts met a CAPTCHA that was not solved, once
\* because the solver threw
W_C28_UnsolvedOnEveryAttempt ==
    /\ FetchEnded /\ fpRetries = 3
    /\ Cardinality(UnsolvedAt) = 3
    /\ \E c \in UnsolvedAt : fpTrace[c].ev = "solver throws"
    /\ \E c \in UnsolvedAt : fpTrace[c].ev = "unsolved"
    /\ Contains(exc, CaptchaError)

\* -------------------------------------------------- the status of a row
Terminal == {STATUS_SUCCESS, STATUS_ERROR}

\* no row of the table goes from PENDING to a terminal status in one write
ThroughProcessing(table, after) ==
    \A i \in 1..Len(table) :
        table[i].status = STATUS_PENDING => after[i].status \notin Terminal

\* C29: every entity a run moves to SUCCESS or ERROR was first set to
\* PROCESSING by that run: no write takes an entity from PENDING to SUCCESS
\* or ERROR.  The pre-emptive recycle of an item runs inside the item's try
\* block before the PROCESSING write, and the catch block writes ERROR.
CE_C29_TerminalOnlyFromProcessing ==
    [][ThroughProcessing(novels, novels')
         /\ ThroughProcessing(chapters, chapters')]_vars

\* ------------------------------------------------ entities in PROCESSING
InProcessing(table) ==
    {i \in 1..Len(table) : table[i].status = STATUS_PROCESSING}

\* the run started on a store with no entity in PROCESSING: the novel query
\* is the first thing a run does with the store and keeps what it saw; a
\* chapter is not written before the chapter query
StartedClean ==
    /\ pc # "exited"
    /\ \A i \in 1..Len(novels) :
          (IF qNovels # <<>> THEN qNovels[i] ELSE novels[i].status)
              # STATUS_PROCESSING
    /\ IF qChapters # <<>>
       THEN \A i \in 1..Len(qChapters) : qChapters[i] # STATUS_PROCESSING
       ELSE InProcessing(chapters) = {}

AtMostOneProcessing ==
    Cardinality(InProcessing(novels)) + Cardinality(InProcessing(chapters))
        <= 1

\* the exit of the process writes nothing to the store
ExitKeepsStore == pc' = "exited" => (novels' = novels /\ chapters' = chapters)

\* C30: during a run that starts with no entity in PROCESSING at most one
\* entity, novel or chapter, is in PROCESSING at any time; the exit of the
\* process writes nothing, so a crash at any point leaves at most one.
T_C30_AtMostOneProcessing ==
    [](StartedClean => AtMostOneProcessing) /\ [][ExitKeepsStore]_vars

\* a chapter is in PROCESSING after both novels of a clean store got their
\* terminal status, one of them ERROR
W_C30_ChapterAfterNovels ==
    /\ StartedClean
    /\ qNovels = <<STATUS_PENDING, STATUS_PENDING>>
    /\ novels[1].status = STATUS_SUCCESS
    /\ novels[2].status = STATUS_ERROR
    /\ Cardinality(InProcessing(chapters)) = 1
    /\ Len(chapters) >= 2

\* the process exited while an entity of a clean store was in PROCESSING
ExitedWhileProcessing ==
    /\ pc = "exited"
    /\ \A i \in 1..Len(novels) : novels[i].status \in Terminal
    /\ Cardinality(InProcessing(chapters)) = 1

\* ------------------------------------------- solveFont outside the gap
\* C31: the gap-completion step adds a pair only when exactly 51 of the 52
\* source letters and exactly 51 of the 52 target letters are resolved; for
\* every other resolved set the map is left as built from the catalog hits.
\* The code tests the number of entries only: 51 entries whose targets are
\* not all distinct (or whose sources are not all letters) get a pair
\* made of the last missing source and the last missing target.
CE_C31_NoPairOutsideTheGap ==
    (SolveFontEnded /\ ~OneGap) => dMap = CatalogHits(dFont.cmap)

\* ------------------------------------------------ after a disconnection
\* getPage or recyclePage was called on an empty pool and has come back
CameOnEmptyPool ==
    /\ pc = "drv_ret" /\ drvOp.op \in {"getPage", "recyclePage"}
    /\ drvPool = <<>>

\* C32: after an unexpected disconnection the pool is empty and no
\* automation process is registered; a Session obtained before then reports
\* shouldRecycle = true; the next getPage or recyclePage starts a process
\* and returns a Session registered in the pool (with usesCount 1), or
\* raises the error of the launch or of the page creation.
T_C32_DisconnectionResetsPool ==
    /\ browserInstance = 0 => (pagePool = <<>> /\ open = {})
    /\ (browserInstance = 0 /\ callerPage # 0) =>
          getPageStats(pagePool, callerPage).shouldRecycle
    /\ CameOnEmptyPool =>
          IF exc = NoError
          THEN /\ browserInstance # 0
               /\ rv \in open
               /\ PoolHas(pagePool, rv)
               /\ pagePool[PoolIndex(pagePool, rv)].uses = 1
          ELSE exc \in CreationErrors

\* the Session the caller held before the disconnection was recycled on
\* the emptied pool and a new process serves the replacement
W_C32_RecycledAfterDisconnection ==
    /\ CameOnEmptyPool /\ exc = NoError
    /\ drvOp.op = "recyclePage"
    /\ drvOp.page = callerPage
    /\ browserInstance # 0
    /\ rv # callerPage

\* --------------------------------------------------- the use counters
\* the counter of a Session that stays registered changes in one step only:
\* the reuse branch of getPage(false), which adds one
CounterKept ==
    \A i \in 1..Len(pagePool), j \in 1..Len(pagePool') :
        pagePool'[j].page = pagePool[i].page =>
            \/ pagePool'[j].uses = pagePool[i].uses
            \/ /\ pc = "gp_scan" /\ ~gpForceNew
               /\ pagePool'[j].uses = pagePool[i].uses + 1

\* a Session is registered by getPage only, with usesCount 1
RegisteredFresh ==
    \A j \in 1..Len(pagePool') :
        ~PoolHas(pagePool, pagePool'[j].page) =>
            pc = "gp_configuring" /\ pagePool'[j].uses = 1

\* a run calls getPage once, so no Session of a run is counted twice
CountedOnce == \A i \in 1..Len(pagePool) : pagePool[i].uses = 1

\* C33: only getPage changes a Session's usesCount: no step of fetchPage,
\* of getPageStats or of the per-item loop changes the counter of a pooled
\* Session, so a Session acquired once and used for any number of fetches
\* keeps usesCount = 1.
T_C33_OnlyGetPageCounts ==
    [](CountedOnce) /\ [][CounterKept /\ RegisteredFresh]_vars

\* the second chapter was fetched after two novels and one chapter, and the
\* only Session of the pool, the one the run holds, still counts one use
W_C33_ManyFetchesOneUse ==
    /\ pc = "pch_delay"
    /\ bIdx = 2
    /\ Len(qNovels) = 2
    /\ \A i \in 1..Len(novels) : novels[i].status = STATUS_SUCCESS
    /\ chapters[pendingChapters[bIdx]].status = STATUS_SUCCESS
    /\ pagePool = <<[page |-> bPage, uses |-> 1]>>

\* ------------------------------------------- the pool at item boundaries
\* the loop of a batch is about to take its next item (or to end)
ItemBoundary == pc \in {"pn_loop", "pch_loop"}

\* C34: at every item boundary of a run the pool holds one live Session,
\* the one the orchestrator holds as its current page: no Session stays
\* registered without being referenced by the orchestrator (an empty pool
\* after a disconnection aside).  discoverNovel and the failure results of
\* both discoveries do not hand back the page fetchPage returned, so after
\* a recycle inside fetchPage the orchestrator keeps the closed Session and
\* the replacement stays registered, unreferenced.
CE_C34_PoolHoldsTheCurrentPage ==
    ItemBoundary =>
        \A i \in 1..Len(pagePool) :
            pagePool[i].page = bPage /\ bPage \in open

\* ------------------------------------------- what fetchPage hands back
\* currentPage is assigned at the start of the call and after a recycle only,
\* so a navigation and the return that follows it see the same Session
CurrentPageKept ==
    fpCurrent' # fpCurrent =>
        pc \in {"fp_start", "fp_pre_ret", "fp_block_ret", "fp_catch_ret"}

\* the successful return hands back currentPage and wasRecycled as they are
ReturnsCurrent ==
    FetchSucceeded => (rv.page = fpCurrent /\ rv.recycled = fpRecycled)

\* `recycled` tells whether the returned Session is another one than the
\* caller's, and a returned Session that is still open is registered
RecycledTellsReplacement ==
    FetchSucceeded =>
        /\ rv.recycled <=> (rv.page # fpPage)
        /\ rv.page \in open => PoolHas(pagePool, rv.page)

\* C35: when fetchPage returns successfully, the returned page is the
\* Session on which the last navigation ran, `recycled` is true exactly
\* when that Session differs from the one passed in, and, absent a
\* disconnection, the returned Session is registered in the pool.
T_C35_ReturnsTheNavigatedSession ==
    [](ReturnsCurrent /\ RecycledTellsReplacement) /\ [][CurrentPageKept]_vars

\* a call that was blocked once, replaced its Session and then succeeded
W_C35_ReturnedReplacement ==
    /\ FetchSucceeded /\ rv.recycled /\ rv.page # fpPage
    /\ rv.page \in open /\ PoolHas(pagePool, rv.page)
    /\ \E b \in 1..Len(fpTrace) : fpTrace[b].ev = "blockwait"

\* ------------------------------------------ what a run leaves behind it
\* the promise of ParserWrapper has settled (resolved, or rejected with pwErr)
RunEnded == pc = "pw_done"

\* no PENDING novel at the first query and no PENDING chapter at the second
NothingPending ==
    /\ \A i \in 1..Len(qNovels) : qNovels[i] # STATUS_PENDING
    /\ \A i \in 1..Len(qChapters) : qChapters[i] # STATUS_PENDING

\* C36: when ParserWrapper returns or throws, closeBrowser has run if the
\* automation process was started: no browser process and no pooled Session
\* outlives the run, also when acquiring the first Session fails after the
\* launch.  browserInitialized is set after `page = await getPage()` only,
\* so a getPage that throws after initBrowser launched the browser skips
\* closeBrowser in the finally block and the process stays.
CE_C36_NoBrowserOutlivesTheRun ==
    RunEnded =>
        /\ browserInstance = 0
        /\ pagePool = <<>>
        /\ open = {}

\* --------------------------------------------- the two batches of a run
\* the chapter rows the novel batch of this run inserted
InsertedByRun == (rowsBefore + 1)..Len(chapters)

\* row i is one of the rows the chapter query of this run returned
InChapterBatch(i) == \E k \in 1..Len(pendingChapters) : pendingChapters[k] = i

\* no chapter is in PROCESSING while a novel of the run is
NovelsBeforeChapters ==
    (\E i \in 1..Len(chapters) : chapters[i].status = STATUS_PROCESSING) =>
        \A k \in 1..Len(pendingNovels) :
            novels[pendingNovels[k]].status # STATUS_PROCESSING

\* at an item boundary the items before the loop index are done and the
\* others still wait: the items are taken in the order of the query
InQueryOrder ==
    /\ pc = "pn_loop" =>
          \A k \in 1..Len(pendingNovels) :
              IF k < bIdx
              THEN novels[pendingNovels[k]].status \in
                       {STATUS_SUCCESS, STATUS_ERROR}
              ELSE novels[pendingNovels[k]].status = STATUS_PENDING
    /\ pc = "pch_loop" =>
          \A k \in 1..Len(pendingChapters) :
              IF k < bIdx
              THEN chapters[pendingChapters[k]].status \in
                       {STATUS_SUCCESS, STATUS_ERROR}
              ELSE chapters[pendingChapters[k]].status = STATUS_PENDING

\* the order inside a run, whether or not the novel batch comes to its end
BatchOrderKept == NovelsBeforeChapters /\ InQueryOrder

\* C37: within one run the novel batch finishes before the chapter query:
\* every chapter row the novel batch of the run inserted is part of the
\* chapter batch of the run, no chapter is in PROCESSING while a novel of
\* the run is, and the items of a batch are taken in the order of the query.
\* When the recycle in the catch block of ParseNovels throws, the error
\* leaves ParserWrapper before the chapter query is made, and the rows the
\* earlier novels of the batch inserted are in no chapter batch of the run.
CE_C37_InsertedRowsAreBatched ==
    /\ RunEnded => \A i \in InsertedByRun : InChapterBatch(i)
    /\ BatchOrderKept

\* --------------------------------------------- the waits of fetchPage
\* the attempt the last wait was computed for
Waited == wAttempt - 1

\* C40: for every attempt index a >= 0 the smallest block wait,
\* (a + 1) * 5000 ms, is greater than the largest normal backoff,
\* min(2000 * 2^a, 10000) + 2000 ms; the base of the normal backoff is 2000,
\* 4000, 8000 and then stays at 10000.
T_C40_BlockOutlastsBackoff ==
    /\ \A random \in RandomTimes(5000), jitter \in RandomTimes(2000) :
          /\ blockDelay(wAttempt, random) >= (wAttempt + 1) * 5000
          /\ totalDelay(wAttempt, jitter) < baseDelay(wAttempt) + 2000
          /\ blockDelay(wAttempt, random) > totalDelay(wAttempt, jitter)
    /\ (wAttempt + 1) * 5000 > baseDelay(wAttempt) + 2000
    /\ baseDelay(wAttempt) =
          CASE wAttempt = 0 -> 2000 [] wAttempt = 1 -> 4000
            [] wAttempt = 2 -> 8000 [] OTHER -> 10000
    /\ wDelay.kind = "block" => wDelay.ms >= (Waited + 1) * 5000
    /\ wDelay.kind = "backoff" =>
          /\ wDelay.ms < (Waited + 1) * 5000
          /\ wDelay.ms <= 11999

\* the longest backoff of an attempt whose base is at its ceiling
W_C40_LongestBackoff ==
    /\ Waited = 4
    /\ wDelay = [kind |-> "backoff", ms |-> 11999]

\* ------------------------------------------------- overlapping invocations
\* at most one invocation of ParserWrapper is in progress
OneRunAtATime == Cardinality(InProgress) <= 1

\* the flag is set exactly while an invocation is in progress
FlagFollowsRun == parserRunning <=> InProgress # {}

\* a step taken while the flag is set starts no invocation
SkippedWhileRunning ==
    parserRunning => \A r \in Runs : Active(r)' => Active(r)

\* C38: in the unified server at most one ParserWrapper run is in progress:
\* a trigger (cron tick or start-up run) that fires while parserRunning is
\* true starts no run, and parserRunning is false again when a run has
\* ended, by return or by throw, so that a later trigger runs again.
T_C38_OneRunInTheServer ==
    [](OneRunAtATime /\ FlagFollowsRun) /\ [][SkippedWhileRunning]_vars

\* the run the first tick started threw and is about to settle; the two
\* ticks that fired while it was in progress started nothing
W_C38_TicksSkippedDuringRun ==
    /\ ticks = 3
    /\ parserRunning
    /\ \E r \in Runs :
          /\ runs[r].by = 1 /\ runs[r].st = "settled" /\ runs[r].threw
          /\ InProgress = {r}

\* the invocations that hold a Session: between acquire and closeBrowser
Holding == {r \in Runs : runs[r].st \in {"loop", "fetch"} /\ runs[r].init}

\* no Session is the current page of two invocations
SessionsNotShared ==
    \A r, q \in Holding : r # q => runs[r].page # runs[q].page

\* the Session an invocation is fetching on is open
UsedSessionsOpen ==
    \A r \in Runs : runs[r].st = "fetch" => runs[r].page \in open

\* no row is set to PROCESSING by two invocations
MarkedOnce ==
    \A r, q \in Runs : r # q => runs[r].marked \cap runs[q].marked = {}

\* C39: under the cron script a cron tick or the RUN_ON_START invocation
\* never starts ParserWrapper while an earlier invocation is in progress, so
\* the pool and the browser of the module are never used by two runs at
\* once: the closeBrowser of one run never closes a Session another run is
\* using, and no entity is set to PROCESSING by two runs.  The callback of
\* the cron script tests nothing before it calls ParserWrapper.
CE_C39_CronRunsNeverOverlap ==
    /\ OneRunAtATime
    /\ SessionsNotShared
    /\ UsedSessionsOpen
    /\ MarkedOnce

====
